---- MODULE Spec2Model ----
(***************************************************************************)
(* A model of tree-eclass: the tree builder (app/services/tree_builder.py), *)
(* the tree differ (app/services/differ.py), the storage of snapshots      *)
(* (app/services/persistence.py), the check cycle (app/services/checker.py)*)
(* and the check routes of the web application (app/web/app.py).           *)
(*                                                                         *)
(* Strings are modelled as sequences of tokens: a path "dl/A/f1" is        *)
(* <<"dl", "/", "A", "/", "f1">> and the change message                    *)
(* "Added file: dl/A/f1" is <<"Added file:", " ", "dl", "/", "A", "/",     *)
(* "f1">>.  Display names are single tokens: non-empty and relative.       *)
(***************************************************************************)
EXTENDS Integers, Sequences, FiniteSets, TLC

VARIABLES
    previous,      \* differ: the prior snapshot handed to diff_trees (NoNode or a Node)
    latest,        \* differ: the new snapshot handed to diff_trees
    changes,       \* differ: the list diff_trees returned
    dpc,           \* differ: "input" before the call, "done" after it
    scraper,       \* builder: what the site answers (listings, validators, contents)
    old_root,      \* builder: the stored snapshot passed as old_root (NoNode or a Node)
    new_root,      \* builder: the snapshot build_tree returned (NoNode before a build)
    calls,         \* builder: the calls the last build made on the scraper, in order
    bpc,           \* builder: "idle" before a build, "built" after it
    unchanged,     \* builder: old_root was built against the site as it is now
    db,            \* storage: the committed tables of the database file
    wtx,           \* storage: the open transaction of the checker's connection
    reader,        \* storage: a load_tree running on another connection
    versions,      \* storage: for each course, the snapshots committed so far, in order
    deleted,       \* storage: the courses deleted, nothing written for them since
    courses,       \* cycle: the rows get_courses returned
    sites,         \* cycle: what the site answers for each course
    faults,        \* cycle: what else fails while each course is processed
    idx,           \* cycle: how many courses the loop of run_checker has processed
    all_changes,   \* cycle: the dict all_changes of run_checker
    results,       \* cycle: what process_course returned, course after course
    sent,          \* cycle: the notification sent (NoNode when none was)
    rpc,           \* cycle: where run_checker stands
    check_lock,    \* web: the asyncio.Lock of the application
    tasks,         \* web: the requests and their background tasks
    loop,          \* web: the task that occupies the event loop thread (0: none)
    heap,          \* objects: the Node and File objects, by identity
    heap0,         \* objects: the heap before the last call
    refs,          \* objects: the identities of old_root and new_root (0: None)
    hsite,         \* objects: the site the scraper reads
    hpc,           \* objects: where the check stands
    check_status,  \* status: the row of check_status, committed and pending
    routine,       \* status: the routine called, its argument and what it holds
    spc,           \* status: the statement the routine is at
    server,        \* download: how the site answers a request
    session,       \* download: the cookie of the scraper's session
    download,      \* download: the requests made and what download_file did
    taken,         \* change_no: the rows of change_records, as (course_id, change_no)
    insert         \* change_no: the locals of create_change_record

diffVars == <<previous, latest, changes, dpc>>

buildVars == <<scraper, old_root, new_root, calls, bpc, unchanged>>

storeVars == <<db, wtx, reader, versions, deleted>>

cycleVars == <<courses, sites, faults, idx, all_changes, results, sent, rpc>>

webVars == <<check_lock, tasks, loop>>

heapVars == <<heap, heap0, refs, hsite, hpc>>

statusVars == <<check_status, routine, spc>>

httpVars == <<server, session, download>>

recordVars == <<taken, insert>>

vars == <<previous, latest, changes, dpc,
          scraper, old_root, new_root, calls, bpc, unchanged,
          db, wtx, reader, versions, deleted,
          courses, sites, faults, idx, all_changes, results, sent, rpc,
          check_lock, tasks, loop,
          heap, heap0, refs, hsite, hpc,
          check_status, routine, spc, server, session, download, taken, insert>>

\* Python's None, for an optional string (md5_hash, etag) and for an optional Node.
None == "None"
NoNode == [absent |-> TRUE]
NoFile == [absent |-> TRUE]

(***************************************************************************)
(* Bounds of the model.                                                    *)
(***************************************************************************)
\* The largest number of entries (directories and files) below the root of
\* one snapshot.
MaxSize == 3
\* The largest number of entries below the roots of the prior and the new
\* snapshot together, when the two are different trees.
MaxTotal == 4
\* The largest number of entries below the root of the site's hierarchy, and
\* of a stored snapshot the first build starts from.
MaxRemote == 3
\* The largest number of entries of the stored snapshot and of the site's
\* hierarchy together, at the first build.
MaxBuildTotal == 3

(***************************************************************************)
(* Small helpers on sequences.                                             *)
(***************************************************************************)
Range(s) == {s[i] : i \in 1..Len(s)}

RECURSIVE Flatten(_)
Flatten(ss) == IF ss = <<>> THEN <<>> ELSE Head(ss) \o Flatten(Tail(ss))

\* The indices i, in order, at which the sequence of booleans keep holds.
SelectIdx(keep) == SelectSeq([i \in 1..Len(keep) |-> i], LAMBDA i : keep[i])

\* Mutant of PathJoin: the parts put together without a separator.
PathJoinBare(a, b) == a \o <<b>>

(***************************************************************************)
(* os.path.join on token sequences, for a relative, non-empty second part. *)
(***************************************************************************)
PathJoin(a, b) ==
    IF a = <<>> THEN <<b>>
    ELSE IF a[Len(a)] = "/" THEN Append(a, b)
    ELSE a \o <<"/", b>>

\* f"{prefix} {path}"
Msg(prefix, path) == <<prefix, " ">> \o path

(***************************************************************************)
(* The data model: File and Node.                                          *)
(***************************************************************************)
File(url, name, md5_hash, etag) ==
    [url |-> url, name |-> name, md5_hash |-> md5_hash, etag |-> etag]

Node(name, url, local_path, children, files) ==
    [name |-> name, url |-> url, local_path |-> local_path,
     children |-> children, files |-> files]

(***************************************************************************)
(* A Python dict built by the comprehension {key(x): x for x in s}, given  *)
(* s and the sequence keys of the keys of its elements: the dict's keys    *)
(* keep the order of their first occurrence, and a key that occurs again   *)
(* takes the later value.                                                  *)
(***************************************************************************)
DictKeys(keys) ==
    LET first == SelectIdx([i \in 1..Len(keys) |->
                               \A j \in 1..(i - 1) : keys[j] # keys[i]])
    IN  [k \in 1..Len(first) |-> keys[first[k]]]

\* Mutant of DictGet: a key that occurs again keeps the earlier value.
DictGetFirst(s, keys, k) ==
    LET hits == {i \in 1..Len(keys) : keys[i] = k}
    IN  s[CHOOSE i \in hits : \A j \in hits : i <= j]

DictGet(s, keys, k) ==
    LET hits == {i \in 1..Len(keys) : keys[i] = k}
    IN  s[CHOOSE i \in hits : \A j \in hits : j <= i]

DictHas(keys, k) == \E i \in 1..Len(keys) : keys[i] = k

\* Mutant of DirKey: directories matched by location.
DirKeyByUrl(d) == d.url

\* The key of a child directory in old_dirs and new_dirs.
DirKey(d) == d.name

\* The key of a file in old_files and new_files.
FileKey(f) == f.url

\* The keys of a list of directories, and of a list of files.
DirKeys(dirs) == [i \in 1..Len(dirs) |-> DirKey(dirs[i])]
FileKeys(files) == [i \in 1..Len(files) |-> FileKey(files[i])]

(***************************************************************************)
(* differ.py                                                               *)
(***************************************************************************)
RECURSIVE _report_all_added(_, _)
_report_all_added(node, base_path) ==
    LET dir_path == PathJoin(base_path, node.name)
    IN  <<Msg("Added directory:", dir_path)>>
        \o [i \in 1..Len(node.files) |->
               Msg("Added file:", PathJoin(dir_path, node.files[i].name))]
        \o Flatten([i \in 1..Len(node.children) |->
               _report_all_added(node.children[i], dir_path)])

\* Mutant of DiffNoPrevious: the child directories expanded before the
\* root's files are reported.
DiffNoPreviousDirsFirst(new) ==
    Flatten([i \in 1..Len(new.children) |->
        _report_all_added(new.children[i], <<new.name>>)])
    \o [i \in 1..Len(new.files) |->
        Msg("Added file:", PathJoin(<<new.name>>, new.files[i].name))]

\* Mutant of DiffNoPrevious: the root reported like any other directory.
DiffNoPreviousWithRoot(new) == _report_all_added(new, <<>>)

\* The branch of diff_trees for previous is None.
DiffNoPrevious(new) ==
    [i \in 1..Len(new.files) |->
        Msg("Added file:", PathJoin(<<new.name>>, new.files[i].name))]
    \o Flatten([i \in 1..Len(new.children) |->
        _report_all_added(new.children[i], <<new.name>>)])

\* Mutant of DeletedDirs: the test "not in new_dirs" inverted.
DeletedDirsInverted(old, new) ==
    LET old_dirs == DictKeys(DirKeys(old.children))
        gone == SelectIdx([i \in 1..Len(old_dirs) |->
                        DictHas(DirKeys(new.children), old_dirs[i])])
    IN  [k \in 1..Len(gone) |->
            Msg("Deleted directory:", PathJoin(new.local_path, old_dirs[gone[k]]))]

\* Mutant of DeletedDirs: the path built from the prior parent's local_path.
DeletedDirsOldPath(old, new) ==
    LET old_dirs == DictKeys(DirKeys(old.children))
        gone == SelectIdx([i \in 1..Len(old_dirs) |->
                        ~DictHas(DirKeys(new.children), old_dirs[i])])
    IN  [k \in 1..Len(gone) |->
            Msg("Deleted directory:", PathJoin(old.local_path, old_dirs[gone[k]]))]

\* "Check for deleted directories"
DeletedDirs(old, new) ==
    LET old_dirs == DictKeys(DirKeys(old.children))
        gone == SelectIdx([i \in 1..Len(old_dirs) |->
                        ~DictHas(DirKeys(new.children), old_dirs[i])])
    IN  [k \in 1..Len(gone) |->
            Msg("Deleted directory:", PathJoin(new.local_path, old_dirs[gone[k]]))]

\* "Check for deleted files"
DeletedFiles(old, new) ==
    LET old_files == DictKeys(FileKeys(old.files))
        gone == SelectIdx([i \in 1..Len(old_files) |->
                        ~DictHas(FileKeys(new.files), old_files[i])])
    IN  [k \in 1..Len(gone) |->
            Msg("Deleted file:",
                PathJoin(new.local_path,
                         DictGet(old.files, FileKeys(old.files), old_files[gone[k]]).name))]

\* Mutant of FileModified: the validators compared instead of the hashes.
FileModifiedByEtag(old_file, new_file) == old_file.etag # new_file.etag

\* The comparison that decides "Modified file".
FileModified(old_file, new_file) == old_file.md5_hash # new_file.md5_hash

\* "Check for added and updated files"
ChangedFiles(old, new) ==
    LET new_files == DictKeys(FileKeys(new.files))
        One(file_url) ==
            LET new_file == DictGet(new.files, FileKeys(new.files), file_url)
                full_file_path == PathJoin(new.local_path, new_file.name)
            IN  IF ~DictHas(FileKeys(old.files), file_url)
                THEN <<Msg("Added file:", full_file_path)>>
                ELSE IF FileModified(DictGet(old.files, FileKeys(old.files), file_url), new_file)
                     THEN <<Msg("Modified file:", full_file_path)>>
                     ELSE <<>>
    IN  Flatten([k \in 1..Len(new_files) |-> One(new_files[k])])

RECURSIVE diff_trees(_, _)
\* Mutant of diff_trees: the files diffed before the directories.
diff_trees_files_first(old, new) ==
    IF old = NoNode THEN DiffNoPrevious(new)
    ELSE
        LET new_dirs == DictKeys(DirKeys(new.children))
            OneDir(dir_name) ==
                LET new_dir_node == DictGet(new.children, DirKeys(new.children), dir_name)
                IN  IF ~DictHas(DirKeys(old.children), dir_name)
                    THEN _report_all_added(new_dir_node, new.local_path)
                    ELSE diff_trees(DictGet(old.children, DirKeys(old.children), dir_name),
                                    new_dir_node)
        IN  DeletedFiles(old, new)
            \o ChangedFiles(old, new)
            \o DeletedDirs(old, new)
            \o Flatten([k \in 1..Len(new_dirs) |-> OneDir(new_dirs[k])])

diff_trees(old, new) ==
    IF old = NoNode THEN DiffNoPrevious(new)
    ELSE
        LET new_dirs == DictKeys(DirKeys(new.children))
            OneDir(dir_name) ==
                LET new_dir_node == DictGet(new.children, DirKeys(new.children), dir_name)
                IN  IF ~DictHas(DirKeys(old.children), dir_name)
                    THEN _report_all_added(new_dir_node, new.local_path)
                    ELSE diff_trees(DictGet(old.children, DirKeys(old.children), dir_name),
                                    new_dir_node)
        IN  DeletedDirs(old, new)
            \o Flatten([k \in 1..Len(new_dirs) |-> OneDir(new_dirs[k])])
            \o DeletedFiles(old, new)
            \o ChangedFiles(old, new)

(***************************************************************************)
(* scraper.py: what build_tree asks of the Scraper.  The site is a record  *)
(* scraper = [remote, etag, content, fails]: remote is the hierarchy of    *)
(* listings (a directory: name, url, files as (url, name) links,           *)
(* children), etag the ETag header of each file location (None when the    *)
(* probe fails or no header is sent, possibly empty), content the MD5 of   *)
(* its bytes, and fails the calls (operation, location) that raise.        *)
(***************************************************************************)
RECURSIVE ListingsOf(_)
\* The directories of a hierarchy.
ListingsOf(dir) ==
    {dir} \cup UNION {ListingsOf(dir.children[i]) : i \in 1..Len(dir.children)}

\* scraper.get_links(url): the parallel lists parsed from the page at url.
get_links(site, url) ==
    LET page == CHOOSE d \in ListingsOf(site.remote) : d.url = url
    IN  [file_urls  |-> [i \in 1..Len(page.files) |-> page.files[i].url],
         dir_urls   |-> [i \in 1..Len(page.children) |-> page.children[i].url],
         file_names |-> [i \in 1..Len(page.files) |-> page.files[i].name],
         dir_names  |-> [i \in 1..Len(page.children) |-> page.children[i].name]]

\* scraper.fetch_etag(file_url)
fetch_etag(site, file_url) == site.etag[file_url]

\* compute_md5(scraper.download_file(file_url, destination))
compute_md5(site, file_url) == site.content[file_url]

\* Mutant of IsGoogle: no location is treated as a Google Drive link.
IsGoogleNever(file_url) == FALSE

\* "google" in file_url
GoogleUrls == {"google1"}
IsGoogle(file_url) == file_url \in GoogleUrls

\* Python's truth value of an Optional[str].
Truthy(str) == str # None /\ str # ""

(***************************************************************************)
(* tree_builder.py                                                         *)
(***************************************************************************)
\* Mutant of MustDownload: a file without a validator is not fetched again.
MustDownloadIgnoringNoEtag(old_file, etag) ==
    old_file = NoFile \/ (Truthy(etag) /\ old_file.etag # etag)

\* Mutant of MustDownload: every file is fetched at every check.
MustDownloadAlways(old_file, etag) == TRUE

\* "Download if new, or etag has changed"
MustDownload(old_file, etag) ==
    old_file = NoFile \/ ~Truthy(etag) \/ old_file.etag # etag

\* The call (a pair of the operation and the location) raises: the site's
\* record names the calls that fail.
Raises(site, call) == call \in site.fails

\* Mutant of Fetch: a download or a hash that fails is passed over, and the
\* file is kept without a hash.
FetchSwallowing(site, file_url, file_name, etag, local_path) ==
    [file  |-> File(file_url, file_name,
                    IF Raises(site, <<"download_file", file_url>>)
                          \/ Raises(site, <<"compute_md5", file_url>>)
                    THEN None ELSE compute_md5(site, file_url), etag),
     calls |-> << <<"download_file", file_url, local_path>>,
                  <<"compute_md5", file_url, local_path>> >>,
     raised |-> FALSE]

\* downloaded_path = scraper.download_file(file_url, local_path), then
\* file_hash = compute_md5(downloaded_path): either may raise, and then no
\* File is appended.
Fetch(site, file_url, file_name, etag, local_path) ==
    IF Raises(site, <<"download_file", file_url>>)
    THEN [file |-> NoFile,
          calls |-> << <<"download_file", file_url, local_path>> >>,
          raised |-> TRUE]
    ELSE IF Raises(site, <<"compute_md5", file_url>>)
    THEN [file |-> NoFile,
          calls |-> << <<"download_file", file_url, local_path>>,
                       <<"compute_md5", file_url, local_path>> >>,
          raised |-> TRUE]
    ELSE [file  |-> File(file_url, file_name, compute_md5(site, file_url), etag),
          calls |-> << <<"download_file", file_url, local_path>>,
                       <<"compute_md5", file_url, local_path>> >>,
          raised |-> FALSE]

\* One turn of the loop "Process files": the File appended, the calls made,
\* and whether the turn raised.
ProcessFile(site, file_url, file_name, old_file, local_path) ==
    IF IsGoogle(file_url)
    THEN Fetch(site, file_url, file_name, None, local_path)
    ELSE LET etag == fetch_etag(site, file_url)
             probe == << <<"fetch_etag", file_url>> >>
         IN  IF MustDownload(old_file, etag)
             THEN LET got == Fetch(site, file_url, file_name, etag, local_path)
                  IN  [got EXCEPT !.calls = probe \o got.calls]
             ELSE [file  |-> File(file_url, file_name,
                                  old_file.md5_hash, old_file.etag),
                   calls |-> probe,
                   raised |-> FALSE]

\* dict.get on the comprehension {key(x): x for x in s}, absent when there
\* is no old_root.
MapGet(old, list, keys, k, absent) ==
    IF old = NoNode THEN absent
    ELSE IF DictHas(keys, k) THEN DictGet(list, keys, k) ELSE absent

\* The first turn of a loop that raised, 0 when none did.
FirstRaised(done) ==
    IF \E i \in 1..Len(done) : done[i].raised
    THEN CHOOSE i \in 1..Len(done) :
            done[i].raised /\ \A j \in 1..(i - 1) : ~done[j].raised
    ELSE 0

\* Mutant of CallsOf: the turns of a loop taken from the last to the first.
CallsOfBackwards(done) ==
    LET last == IF FirstRaised(done) = 0 THEN Len(done) ELSE FirstRaised(done)
    IN  Flatten([i \in 1..last |-> done[last + 1 - i].calls])

\* The calls of the turns of a loop, up to the turn that raised.
CallsOf(done) ==
    LET last == IF FirstRaised(done) = 0 THEN Len(done) ELSE FirstRaised(done)
    IN  Flatten([i \in 1..last |-> done[i].calls])

RECURSIVE build_tree(_, _, _, _, _)
\* Mutant of build_tree: a file link listed again is processed once.
build_tree_distinct(site, url, local_path, name, old) ==
    IF Raises(site, <<"get_links", url>>)
    THEN [node |-> NoNode, calls |-> << <<"get_links", url>> >>, raised |-> TRUE]
    ELSE
    LET listed_links == get_links(site, url)
        keep == SelectIdx([i \in 1..Len(listed_links.file_urls) |->
                    \A j \in 1..(i - 1) :
                        listed_links.file_urls[j] # listed_links.file_urls[i]])
        links == [listed_links EXCEPT
                    !.file_urls = [k \in 1..Len(keep) |-> listed_links.file_urls[keep[k]]],
                    !.file_names = [k \in 1..Len(keep) |-> listed_links.file_names[keep[k]]]]
        old_files == IF old = NoNode THEN <<>> ELSE old.files
        old_children == IF old = NoNode THEN <<>> ELSE old.children
        done_files ==
            [i \in 1..Len(links.file_urls) |->
                ProcessFile(site, links.file_urls[i], links.file_names[i],
                            MapGet(old, old_files, FileKeys(old_files),
                                   links.file_urls[i], NoFile),
                            local_path)]
        done_dirs ==
            [i \in 1..Len(links.dir_urls) |->
                build_tree(site, links.dir_urls[i],
                           PathJoin(local_path, links.dir_names[i]),
                           links.dir_names[i],
                           MapGet(old, old_children, DirKeys(old_children),
                                  links.dir_names[i], NoNode))]
        listed == << <<"get_links", url>> >>
    IN  IF FirstRaised(done_files) # 0
        THEN [node |-> NoNode, calls |-> listed \o CallsOf(done_files),
              raised |-> TRUE]
        ELSE IF FirstRaised(done_dirs) # 0
        THEN [node |-> NoNode,
              calls |-> listed \o CallsOf(done_files) \o CallsOf(done_dirs),
              raised |-> TRUE]
        ELSE [node  |-> Node(name, url, local_path,
                             [i \in 1..Len(done_dirs) |-> done_dirs[i].node],
                             [i \in 1..Len(done_files) |-> done_files[i].file]),
              calls |-> listed \o CallsOf(done_files) \o CallsOf(done_dirs),
              raised |-> FALSE]

\* The Node returned and the calls made on the scraper, in order; when a call
\* raised, the exception leaves build_tree: raised is set and no Node is
\* returned.
build_tree(site, url, local_path, name, old) ==
    IF Raises(site, <<"get_links", url>>)
    THEN [node |-> NoNode, calls |-> << <<"get_links", url>> >>, raised |-> TRUE]
    ELSE
    LET links == get_links(site, url)
        old_files == IF old = NoNode THEN <<>> ELSE old.files
        old_children == IF old = NoNode THEN <<>> ELSE old.children
        done_files ==
            [i \in 1..Len(links.file_urls) |->
                ProcessFile(site, links.file_urls[i], links.file_names[i],
                            MapGet(old, old_files, FileKeys(old_files),
                                   links.file_urls[i], NoFile),
                            local_path)]
        done_dirs ==
            [i \in 1..Len(links.dir_urls) |->
                build_tree(site, links.dir_urls[i],
                           PathJoin(local_path, links.dir_names[i]),
                           links.dir_names[i],
                           MapGet(old, old_children, DirKeys(old_children),
                                  links.dir_names[i], NoNode))]
        listed == << <<"get_links", url>> >>
    IN  IF FirstRaised(done_files) # 0
        THEN [node |-> NoNode, calls |-> listed \o CallsOf(done_files),
              raised |-> TRUE]
        ELSE IF FirstRaised(done_dirs) # 0
        THEN [node |-> NoNode,
              calls |-> listed \o CallsOf(done_files) \o CallsOf(done_dirs),
              raised |-> TRUE]
        ELSE [node  |-> Node(name, url, local_path,
                             [i \in 1..Len(done_dirs) |-> done_dirs[i].node],
                             [i \in 1..Len(done_files) |-> done_files[i].file]),
              calls |-> listed \o CallsOf(done_files) \o CallsOf(done_dirs),
              raised |-> FALSE]

(***************************************************************************)
(* The snapshots the differ is run on.  A snapshot is well formed: every   *)
(* node's local_path is its parent's local_path joined with its name (as   *)
(* build_tree sets it), and the files of one directory have distinct       *)
(* locations.  Sibling directories may share a display name.               *)
(***************************************************************************)
\* (name, url) of the directories: "Labs" is listed at two locations.
DirLabels == {<<"Labs", "/a">>, <<"Labs", "/b">>, <<"D", "/d">>}

\* The files: location u1 with its content, its name and its validator
\* changed in turn, and a second location u2.
FileLabels ==
    {File("u1", "f1", "h1", "e1"), File("u1", "g1", "h1", "e2"),
     File("u1", "f1", "h2", "e1"), File("u2", "f2", "h1", "e1")}

RECURSIVE FileLists(_, _)
\* The lists of k of the files with distinct locations.
FileLists(k, files) ==
    IF k = 0 THEN {<<>>}
    ELSE {Append(x[1], x[2]) :
            x \in {y \in FileLists(k - 1, files) \X files :
                      \A i \in 1..Len(y[1]) : y[1][i].url # y[2].url}}

RECURSIVE DirLists(_, _, _, _)
RECURSIVE Contents(_, _, _, _)
\* The (children, files) of a directory at local_path with exactly n entries
\* below it, its directories labelled from dirs and its files taken from files.
Contents(n, local_path, dirs, files) ==
    UNION {{[children |-> cl, files |-> fl] :
                cl \in DirLists(n - k, local_path, dirs, files),
                fl \in FileLists(k, files)} :
           k \in 0..n}

\* The lists of child directories, below local_path, with n entries in all.
DirLists(n, local_path, dirs, files) ==
    IF n = 0 THEN {<<>>}
    ELSE UNION {UNION {
            LET child_path == PathJoin(local_path, lab[1])
            IN  {<<Node(lab[1], lab[2], child_path, c.children, c.files)>> \o rest :
                    c \in Contents(s - 1, child_path, dirs, files),
                    rest \in DirLists(n - s, local_path, dirs, files)} :
            lab \in dirs} : s \in 1..n}

\* The snapshots of a course named name and mirrored at local_path, with
\* exactly k entries below the root.
Snapshots(name, local_path, k) ==
    {Node(name, "/course", local_path, c.children, c.files) :
        c \in Contents(k, local_path, DirLabels, FileLabels)}

(***************************************************************************)
(* The differ, run on a pair of snapshots.                                 *)
(***************************************************************************)
\* (course name, local_path of the new root, local_path of the prior root):
\* a course mirrored in a folder named like the course, and a course whose
\* download folder was changed after the prior snapshot was taken.
DiffConfigs == {<<"root", <<"root">>, <<"root">>>>, <<"root", <<"dl">>, <<"old">>>>}

\* A new root whose listing showed one file link twice, against a prior root
\* without entries and against a prior root holding the file.
RepeatedLinkInputs ==
    LET twice == Node("root", "/course", <<"root">>, <<>>,
                      <<File("u1", "f1", "h1", "e1"), File("u1", "g1", "h1", "e1")>>)
    IN  {<<Node("root", "/course", <<"root">>, <<>>, fl), twice>> :
            fl \in {<<>>, <<File("u1", "f1", "h1", "e1")>>}}

\* The pairs (previous, latest) diff_trees is run on: no prior snapshot, a
\* prior snapshot identical to the new one, and two snapshots of at most
\* MaxTotal entries together.
DiffInputs ==
    UNION {
        LET new_trees(k) == Snapshots(cfg[1], cfg[2], k)
            old_trees(k) == Snapshots(cfg[1], cfg[3], k)
        IN  UNION {{<<NoNode, l>> : l \in new_trees(k)} : k \in 0..MaxSize}
            \cup UNION {{<<l, l>> : l \in new_trees(k) \cap old_trees(k)} :
                            k \in 0..MaxSize}
            \cup UNION {old_trees(ks[1]) \X new_trees(ks[2]) :
                            ks \in {x \in (0..MaxSize) \X (0..MaxSize) :
                                        x[1] + x[2] <= MaxTotal}} :
        cfg \in DiffConfigs}
    \cup RepeatedLinkInputs

\* The differ at rest, while another part of the program is run.
DiffIdle ==
    /\ previous = NoNode
    /\ latest = NoNode
    /\ changes = <<>>
    /\ dpc = "idle"

\* The builder at rest.
BuildIdle ==
    /\ scraper = NoNode
    /\ old_root = NoNode
    /\ new_root = NoNode
    /\ calls = <<>>
    /\ bpc = "off"
    /\ unchanged = FALSE

\* The storage at rest: an empty database file.
StoreIdle ==
    /\ db = NoNode
    /\ wtx = NoNode
    /\ reader = NoNode
    /\ versions = <<>>
    /\ deleted = {}

\* The check cycle at rest.
CycleIdle ==
    /\ courses = <<>>
    /\ sites = <<>>
    /\ faults = <<>>
    /\ idx = 0
    /\ all_changes = <<>>
    /\ results = <<>>
    /\ sent = NoNode
    /\ rpc = "off"

\* The web application at rest.
WebIdle ==
    /\ check_lock = NoNode
    /\ tasks = <<>>
    /\ loop = 0

\* No object allocated.
HeapIdle ==
    /\ heap = <<>>
    /\ heap0 = <<>>
    /\ refs = [old |-> 0, new |-> 0]
    /\ hsite = NoNode
    /\ hpc = "off"

\* No check routine called.
StatusIdle ==
    /\ check_status = NoNode
    /\ routine = NoNode
    /\ spc = "off"

\* No download under way.
HttpIdle ==
    /\ server = NoNode
    /\ session = NoNode
    /\ download = NoNode

\* No change record being created.
RecordIdle ==
    /\ taken = <<>>
    /\ insert = NoNode

InitDiff ==
    /\ \E pr \in DiffInputs : previous = pr[1] /\ latest = pr[2]
    /\ changes = <<>>
    /\ dpc = "input"
    /\ BuildIdle /\ StoreIdle /\ CycleIdle /\ WebIdle /\ HeapIdle
    /\ StatusIdle /\ HttpIdle /\ RecordIdle


\* changes = differ.diff_trees(old_root, new_root)
RunDiff ==
    /\ dpc = "input"
    /\ changes' = diff_trees(previous, latest)
    /\ dpc' = "done"
    /\ UNCHANGED <<previous, latest>>
    /\ UNCHANGED <<buildVars, storeVars, cycleVars, webVars, heapVars, statusVars,
                 httpVars, recordVars>>


(***************************************************************************)
(* The builder, run check after check against a site.                      *)
(***************************************************************************)
\* The file links of the listings: two files of the site and a file hosted
\* on Google Drive.
RemoteLinks ==
    {[url |-> "u1", name |-> "f1"], [url |-> "u2", name |-> "f2"],
     [url |-> "google1", name |-> "f3"]}

FileUrls == {l.url : l \in RemoteLinks}

RECURSIVE RemoteDirLists(_)
RECURSIVE RemoteContents(_)
\* The (children, files) of a listing with exactly n entries below it; a
\* listing may show the same link twice.
RemoteContents(n) ==
    UNION {{[children |-> cl, files |-> fl] :
                cl \in RemoteDirLists(n - k), fl \in [1..k -> RemoteLinks]} :
           k \in 0..n}

RemoteDirLists(n) ==
    IF n = 0 THEN {<<>>}
    ELSE UNION {UNION {
            {<<[name |-> lab[1], url |-> lab[2],
                children |-> c.children, files |-> c.files]>> \o rest :
                    c \in RemoteContents(s - 1), rest \in RemoteDirLists(n - s)} :
            lab \in DirLabels} : s \in 1..n}

\* The hierarchies of exactly k entries in which one location shows one
\* listing wherever it is linked.
Remotes(k) ==
    {r \in {[name |-> "root", url |-> "/course",
              children |-> c.children, files |-> c.files] : c \in RemoteContents(k)} :
        \A d1, d2 \in ListingsOf(r) : d1.url = d2.url => d1 = d2}

\* The MD5 of each file's bytes.
SiteContent ==
    [u \in FileUrls |-> CASE u = "u1" -> "h1" [] u = "u2" -> "h2" [] OTHER -> "h3"]

\* The ETag headers at the first check: u1 may send none, or an empty one.
SiteEtags ==
    {[u \in FileUrls |-> CASE u = "u1" -> e [] u = "u2" -> "e1" [] OTHER -> None] :
        e \in {None, "", "e1"}}

\* The stored snapshots of earlier checks: their hashes and validators are
\* those of the site as it was then.
PriorDirLabels == {<<"Labs", "/a">>, <<"D", "/d">>}

PriorFileLabels ==
    {File("u1", "f1", "h0", "e1"), File("u1", "f1", "h0", "e2"),
     File("u2", "f2", "h2", "e1"), File("google1", "f3", "h0", None)}

PriorSnapshots(k) ==
    {Node("root", "/course", <<"dl">>, c.children, c.files) :
        c \in Contents(k, <<"dl">>, PriorDirLabels, PriorFileLabels)}

\* Some listing of the hierarchy shows two directories of one display name.
SharesNames(r) ==
    \E d \in ListingsOf(r) : \E i, j \in 1..Len(d.children) :
        i # j /\ d.children[i].name = d.children[j].name

\* A directory the site lists a second time under the same display name,
\* at another location: the stored snapshot holds it, with one file, and both
\* orders of the two links.
RelistedInputs ==
    UNION {
        LET held(l) == [name |-> lab[1], url |-> lab[2], children |-> <<>>,
                        files |-> <<l>>]
            twin == [name |-> lab[1], url |-> "/b", children |-> <<>>,
                     files |-> <<>>]
            site(cl) == [name |-> "root", url |-> "/course", files |-> <<>>,
                         children |-> cl]
            stored(f) ==
                Node("root", "/course", <<"dl">>,
                     <<Node(lab[1], lab[2], PathJoin(<<"dl">>, lab[1]), <<>>, <<f>>)>>,
                     <<>>)
        IN  {<<stored(f), site(<<held(l), twin>>)>> :
                    f \in PriorFileLabels, l \in RemoteLinks}
            \cup {<<stored(f), site(<<twin, held(l)>>)>> :
                    f \in PriorFileLabels, l \in RemoteLinks} :
        lab \in PriorDirLabels}

\* The pairs (stored snapshot, hierarchy of the site) of a first build: no
\* stored snapshot, the pairs of at most MaxBuildTotal entries together, and
\* the relisted directories.
BuildInputs ==
    UNION {{<<NoNode, r>> : r \in Remotes(k)} : k \in 0..MaxRemote}
    \cup UNION {PriorSnapshots(ks[1]) \X Remotes(ks[2]) :
                    ks \in {x \in (0..MaxRemote) \X (0..MaxRemote) :
                                x[1] + x[2] <= MaxBuildTotal}}
    \cup RelistedInputs

InitBuild ==
    /\ \E pr \in BuildInputs, etags \in SiteEtags :
          /\ old_root = pr[1]
          /\ scraper = [remote |-> pr[2], etag |-> etags, content |-> SiteContent,
                        fails |-> {}]
    /\ new_root = NoNode
    /\ calls = <<>>
    /\ bpc = "idle"
    /\ unchanged = FALSE
    /\ DiffIdle /\ StoreIdle /\ CycleIdle /\ WebIdle /\ HeapIdle
    /\ StatusIdle /\ HttpIdle /\ RecordIdle

\* new_root = tree_builder.build_tree(scraper_instance, url, download_folder,
\*                                    course_name, old_root)
Build ==
    /\ bpc = "idle"
    /\ LET built == build_tree(scraper, "/course", <<"dl">>, "root", old_root)
       IN  /\ new_root' = built.node
           /\ calls' = built.calls
    /\ bpc' = "built"
    /\ UNCHANGED <<scraper, old_root, unchanged>>
    /\ UNCHANGED <<diffVars, storeVars, cycleVars, webVars, heapVars, statusVars,
                 httpVars, recordVars>>

\* The snapshot of one check is stored and is the old_root of the next.
NextCheck ==
    /\ bpc = "built"
    /\ old_root' = new_root
    /\ new_root' = NoNode
    /\ calls' = <<>>
    /\ bpc' = "idle"
    /\ unchanged' = TRUE
    /\ UNCHANGED scraper
    /\ UNCHANGED <<diffVars, storeVars, cycleVars, webVars, heapVars, statusVars,
                 httpVars, recordVars>>

\* Between two checks the site sends another ETag for a file, or none.
ChangeEtag ==
    /\ bpc = "idle"
    /\ unchanged
    /\ \E u \in FileUrls \ GoogleUrls, e \in {None, "e2"} :
          /\ e # scraper.etag[u]
          /\ scraper' = [scraper EXCEPT !.etag[u] = e]
    /\ unchanged' = FALSE
    /\ UNCHANGED <<old_root, new_root, calls, bpc>>
    /\ UNCHANGED <<diffVars, storeVars, cycleVars, webVars, heapVars, statusVars,
                 httpVars, recordVars>>

NextBuild == Build \/ NextCheck \/ ChangeEtag

SpecBuild == InitBuild /\ [][NextBuild]_vars

(***************************************************************************)
(* Helpers of the properties.                                              *)
(***************************************************************************)
\* How many times x occurs in the sequence s.
Count(s, x) == Cardinality({i \in 1..Len(s) : s[i] = x})

Prefix(msg) == msg[1]
PathOf(msg) == SubSeq(msg, 3, Len(msg))

\* path \o "/" \o name, written out.
Under(path, name) == path \o <<"/", name>>

\* p is a path strictly below the path q.
IsBelow(p, q) ==
    /\ Len(p) > Len(q) + 1
    /\ SubSeq(p, 1, Len(q)) = q
    /\ p[Len(q) + 1] = "/"

NamesOf(nodes) == {nodes[i].name : i \in 1..Len(nodes)}
UrlsOf(files) == {files[i].url : i \in 1..Len(files)}

\* The child directory of that name, when exactly one child has it.
UniqueChild(node, name) ==
    node.children[CHOOSE i \in 1..Len(node.children) : node.children[i].name = name]

HasUniqueChild(node, name) ==
    Cardinality({i \in 1..Len(node.children) : node.children[i].name = name}) = 1

RECURSIVE MatchedLevels(_, _)
\* The pairs (prior directory, new directory) that stand for the same
\* directory: the two roots, and below a pair the children carrying a name
\* that exactly one child has on either side.
MatchedLevels(old, new) ==
    {<<old, new>>}
    \cup UNION {MatchedLevels(UniqueChild(old, n), UniqueChild(new, n)) :
            n \in {m \in NamesOf(new.children) :
                        HasUniqueChild(old, m) /\ HasUniqueChild(new, m)}}

\* The file of that location in a file list with distinct locations.
FileAt(files, url) == files[CHOOSE i \in 1..Len(files) : files[i].url = url]

DiffDone == dpc = "done"

\* The levels of a finished diff with a prior snapshot.
DoneLevels ==
    IF DiffDone /\ previous # NoNode THEN MatchedLevels(previous, latest) ELSE {}

(***************************************************************************)
(* C1: diffing a snapshot against itself, or against a structurally        *)
(* identical copy, yields no change record, whatever the nesting depth.    *)
(***************************************************************************)
C1_SelfDiffEmpty == (DiffDone /\ previous = latest) => changes = <<>>

\* A snapshot with a file two levels below the root was diffed against itself.
C1_Witness ==
    /\ DiffDone /\ previous = latest
    /\ \E i \in 1..Len(latest.children) :
          \E j \in 1..Len(latest.children[i].children) :
              latest.children[i].children[j].files # <<>>

(***************************************************************************)
(* C2: with no prior snapshot, diff_trees reports every file and every     *)
(* directory below the root exactly once as added, reports nothing for the *)
(* root and nothing as deleted or modified: as many records as there are   *)
(* files and non-root directories.                                         *)
(***************************************************************************)
RECURSIVE NumFiles(_)
NumFiles(node) ==
    Len(node.files)
    + LET RECURSIVE Sum(_)
          Sum(q) == IF q = <<>> THEN 0 ELSE NumFiles(Head(q)) + Sum(Tail(q))
      IN  Sum(node.children)

RECURSIVE NumDirs(_)
\* The directories strictly below node.
NumDirs(node) ==
    Len(node.children)
    + LET RECURSIVE Sum(_)
          Sum(q) == IF q = <<>> THEN 0 ELSE NumDirs(Head(q)) + Sum(Tail(q))
      IN  Sum(node.children)

RECURSIVE Entries(_, _)
\* One "Added" message per entry below node, whose path is path: for each
\* child its contents and then the child itself, and the files last.
Entries(node, path) ==
    Flatten([i \in 1..Len(node.children) |->
        Entries(node.children[i], Under(path, node.children[i].name))
        \o <<Msg("Added directory:", Under(path, node.children[i].name))>>])
    \o [i \in 1..Len(node.files) |->
            Msg("Added file:", Under(path, node.files[i].name))]

C2_BaseCaseComplete ==
    (DiffDone /\ previous = NoNode) =>
        LET expected == Entries(latest, <<latest.name>>)
            WithPrefix(p) == {i \in 1..Len(changes) : Prefix(changes[i]) = p}
        IN  /\ Len(changes) = NumFiles(latest) + NumDirs(latest)
            /\ Cardinality(WithPrefix("Added file:")) = NumFiles(latest)
            /\ Cardinality(WithPrefix("Added directory:")) = NumDirs(latest)
            /\ \A m \in Range(changes) \cup Range(expected) :
                    Count(changes, m) = Count(expected, m)
            /\ \A i \in 1..Len(changes) : PathOf(changes[i]) # <<latest.name>>

\* A first diff of a snapshot with a file at the root and a file in a
\* directory of a directory.
C2_Witness ==
    /\ DiffDone /\ previous = NoNode
    /\ NumFiles(latest) >= 1 /\ NumDirs(latest) >= 2
    /\ \E i \in 1..Len(latest.children) : latest.children[i].children # <<>>

(***************************************************************************)
(* C3: a file with the same location in the prior and the new listing of a *)
(* matched directory gets exactly one "Modified file" record when its      *)
(* hash differs from the prior one, and no record when the hashes are      *)
(* equal, whatever happened to its validator and its display name.         *)
(***************************************************************************)
C3_HashAuthoritative ==
    \A lvl \in DoneLevels :
        \A u \in UrlsOf(lvl[1].files) \cap UrlsOf(lvl[2].files) :
            LET old_file == FileAt(lvl[1].files, u)
                new_file == FileAt(lvl[2].files, u)
                path == Under(lvl[2].local_path, new_file.name)
                records == {i \in 1..Len(changes) : PathOf(changes[i]) = path}
            IN  IF old_file.md5_hash # new_file.md5_hash
                THEN /\ Cardinality(records) = 1
                     /\ \A i \in records : Prefix(changes[i]) = "Modified file:"
                ELSE records = {}

\* Below the root, a file kept its location and its content while its
\* validator and its name changed.
C3_Witness ==
    \E lvl \in DoneLevels :
        /\ lvl[2] # latest
        /\ \E u \in UrlsOf(lvl[1].files) \cap UrlsOf(lvl[2].files) :
              /\ FileAt(lvl[1].files, u).md5_hash = FileAt(lvl[2].files, u).md5_hash
              /\ FileAt(lvl[1].files, u).etag # FileAt(lvl[2].files, u).etag
              /\ FileAt(lvl[1].files, u).name # FileAt(lvl[2].files, u).name

(***************************************************************************)
(* C4: a child directory that keeps its name while its location changes is *)
(* never reported as a deleted plus an added directory; it is matched by   *)
(* name and diffed recursively, so two snapshots that differ in directory  *)
(* locations only yield no change record.                                  *)
(***************************************************************************)
RECURSIVE WithoutDirUrls(_)
\* The snapshot with the location of every directory blanked.
WithoutDirUrls(node) ==
    [node EXCEPT !.url = "",
                 !.children = [i \in 1..Len(node.children) |->
                                  WithoutDirUrls(node.children[i])]]

C4_MovedDirectoryMatched ==
    /\ \A lvl \in DoneLevels :
          \A n \in {m \in NamesOf(lvl[2].children) :
                      HasUniqueChild(lvl[1], m) /\ HasUniqueChild(lvl[2], m)} :
              \A i \in 1..Len(changes) :
                  PathOf(changes[i]) = Under(lvl[2].local_path, n)
                      => Prefix(changes[i]) \notin {"Deleted directory:", "Added directory:"}
    /\ (DiffDone /\ previous # NoNode
            /\ WithoutDirUrls(previous) = WithoutDirUrls(latest))
          => changes = <<>>

\* "Labs" moved from /a to /b with one unchanged file inside.
C4_Witness ==
    /\ DiffDone /\ previous # NoNode /\ previous # latest
    /\ WithoutDirUrls(previous) = WithoutDirUrls(latest)
    /\ Len(latest.children) = 1
    /\ latest.children[1].name = "Labs" /\ latest.children[1].url = "/b"
    /\ previous.children[1].url = "/a"
    /\ Len(latest.children[1].files) = 1

(***************************************************************************)
(* C5: a prior child directory with no child of the same name in the new   *)
(* directory gets exactly one record, "Deleted directory:" with the path   *)
(* <local_path of the NEW parent>/<name>, and nothing inside it gets a     *)
(* record, however deep its contents.                                      *)
(***************************************************************************)
C5_DeletedDirectoryOnce ==
    \A lvl \in DoneLevels :
        \A n \in NamesOf(lvl[1].children) \ NamesOf(lvl[2].children) :
            LET path == Under(lvl[2].local_path, n)
                records == {i \in 1..Len(changes) : PathOf(changes[i]) = path}
            IN  /\ Cardinality(records) = 1
                /\ \A i \in records : Prefix(changes[i]) = "Deleted directory:"
                /\ \A i \in 1..Len(changes) : ~IsBelow(PathOf(changes[i]), path)

\* A directory holding a directory with a file was deleted, and the prior
\* snapshot was mirrored elsewhere than the new one.
C5_Witness ==
    /\ DiffDone /\ previous # NoNode
    /\ previous.local_path # latest.local_path
    /\ \E i \in 1..Len(previous.children) :
          /\ previous.children[i].name \notin NamesOf(latest.children)
          /\ \E j \in 1..Len(previous.children[i].children) :
                previous.children[i].children[j].files # <<>>

(***************************************************************************)
(* C6: with a prior snapshot, the records of one directory level come in   *)
(* this order: the deleted directories, then the new child directories in  *)
(* new-list order (each one's added subtree or recursive diff, complete),  *)
(* then the deleted files, then the added and modified files in new-list   *)
(* order.                                                                  *)
(***************************************************************************)
\* The place of a record in the order of the level whose new directory is at
\* local_path: 1 a deleted child directory, 2 an added child directory or
\* anything below a child directory, 3 a deleted file, 4 an added or
\* modified file.
Segment(msg, local_path) ==
    IF Len(PathOf(msg)) > Len(local_path) + 2 THEN 2
    ELSE CASE Prefix(msg) = "Deleted directory:" -> 1
           [] Prefix(msg) = "Added directory:" -> 2
           [] Prefix(msg) = "Deleted file:" -> 3
           [] OTHER -> 4

\* The name, directly below local_path, a record's path goes through.
ChildName(msg, local_path) == PathOf(msg)[Len(local_path) + 2]

\* The first place of a name in a list of nodes or files.
FirstIndex(list, name) ==
    CHOOSE i \in 1..Len(list) :
        /\ list[i].name = name
        /\ \A j \in 1..(i - 1) : list[j].name # name

C6_LevelOrder ==
    \A lvl \in DoneLevels :
        LET lp == lvl[2].local_path
            here == SelectSeq(changes, LAMBDA m : IsBelow(PathOf(m), lp))
        IN  \A i, j \in 1..Len(here) :
                i < j =>
                    /\ Segment(here[i], lp) <= Segment(here[j], lp)
                    /\ (Segment(here[i], lp) = 2 /\ Segment(here[j], lp) = 2) =>
                          /\ FirstIndex(lvl[2].children, ChildName(here[i], lp))
                                <= FirstIndex(lvl[2].children, ChildName(here[j], lp))
                          /\ (/\ Prefix(here[j]) = "Added directory:"
                              /\ Len(PathOf(here[j])) = Len(lp) + 2)
                                => ~IsBelow(PathOf(here[i]), PathOf(here[j]))
                    /\ (Segment(here[i], lp) = 4 /\ Segment(here[j], lp) = 4) =>
                          FirstIndex(lvl[2].files, ChildName(here[i], lp))
                            < FirstIndex(lvl[2].files, ChildName(here[j], lp))

\* One level produced a deleted directory, a record below a directory, a
\* deleted file and an added file.
C6_Witness ==
    /\ DiffDone /\ previous # NoNode
    /\ \A k \in 1..4 :
          \E i \in 1..Len(changes) : Segment(changes[i], latest.local_path) = k

(***************************************************************************)
(* C7: with no prior snapshot the root's files come first, in list order,  *)
(* then each child directory of the root in list order: its "Added         *)
(* directory" record, its files, then its subdirectories in the same way,  *)
(* one sibling's whole subtree before the next.  For root "root" with file *)
(* f1 and directory D holding f2 the output is "Added file: root/f1",      *)
(* "Added directory: root/D", "Added file: root/D/f2".                     *)
(***************************************************************************)
RECURSIVE Preorder(_, _)
\* The records of the directories waiting on a stack of (node, path of the
\* parent): the first is reported with its files and its children go on
\* top of the stack.
Preorder(stack, out) ==
    IF stack = <<>> THEN out
    ELSE LET node == Head(stack)[1]
             dir_path == Under(Head(stack)[2], node.name)
         IN  Preorder(
                [i \in 1..Len(node.children) |-> <<node.children[i], dir_path>>]
                    \o Tail(stack),
                out \o <<Msg("Added directory:", dir_path)>>
                    \o [i \in 1..Len(node.files) |->
                            Msg("Added file:", Under(dir_path, node.files[i].name))])

C7_Example ==
    Node("root", "/course", <<"root">>,
         <<Node("D", "/d", <<"root", "/", "D">>, <<>>,
                <<File("u2", "f2", "h1", "e1")>>)>>,
         <<File("u1", "f1", "h1", "e1")>>)

C7_FirstDiffOrder ==
    (DiffDone /\ previous = NoNode) =>
        /\ changes =
              Preorder([i \in 1..Len(latest.children) |->
                           <<latest.children[i], <<latest.name>>>>],
                       [i \in 1..Len(latest.files) |->
                           Msg("Added file:", Under(<<latest.name>>, latest.files[i].name))])
        /\ latest = C7_Example =>
              changes = << <<"Added file:", " ", "root", "/", "f1">>,
                           <<"Added directory:", " ", "root", "/", "D">>,
                           <<"Added file:", " ", "root", "/", "D", "/", "f2">> >>

\* The first diff of the example snapshot.
C7_Witness == DiffDone /\ previous = NoNode /\ latest = C7_Example

(***************************************************************************)
(* Helpers of the properties of build_tree.                                *)
(***************************************************************************)
Built == bpc = "built"

\* The positions of the download_file calls of the build.
Downloads == {i \in 1..Len(calls) : calls[i][1] = "download_file"}

\* No listing of the site links a Google Drive file.
NoGoogleLinks ==
    \A d \in ListingsOf(scraper.remote) : \A i \in 1..Len(d.files) :
        d.files[i].url \notin GoogleUrls

\* Every probed file of the site answers with a non-empty ETag.
AllTokens ==
    \A d \in ListingsOf(scraper.remote) : \A i \in 1..Len(d.files) :
        d.files[i].url \in GoogleUrls \/ Truthy(scraper.etag[d.files[i].url])

RECURSIVE BuildLevels(_, _)
\* The pairs (prior directory or NoNode, built directory) build_tree was run
\* on, followed through the children whose name no sibling shares on either
\* side.
BuildLevels(old, new) ==
    {<<old, new>>}
    \cup UNION {
            BuildLevels(IF old = NoNode \/ n \notin NamesOf(old.children)
                        THEN NoNode ELSE UniqueChild(old, n),
                        UniqueChild(new, n)) :
            n \in {m \in NamesOf(new.children) :
                        /\ HasUniqueChild(new, m)
                        /\ old = NoNode \/ m \notin NamesOf(old.children)
                                        \/ HasUniqueChild(old, m)}}

\* How many files of the list have that location.
Listed(files, url) == Cardinality({i \in 1..Len(files) : files[i].url = url})

\* The prior file of that location, NoFile when there is none.
PriorFile(old, url) ==
    IF old = NoNode \/ url \notin UrlsOf(old.files) THEN NoFile
    ELSE FileAt(old.files, url)

(***************************************************************************)
(* C8 as the specification states it: a second build over an unchanged     *)
(* site returns a snapshot equal to the prior one and calls download_file  *)
(* not once, for every hierarchy.  The builds of the model refute it.      *)
(***************************************************************************)
C8_Original ==
    (Built /\ unchanged) => (new_root = old_root /\ Downloads = {})

(***************************************************************************)
(* C8, amended: when a build is run over a site that has not changed since *)
(* the prior snapshot was built, and no two sibling directories of the     *)
(* site share a display name, the snapshot returned equals the prior one;  *)
(* if moreover no Google Drive file is linked and every probe returns a    *)
(* non-empty ETag, download_file is not called at all.                     *)
(***************************************************************************)
C8_UnchangedRebuild ==
    (Built /\ unchanged /\ ~SharesNames(scraper.remote)) =>
        /\ new_root = old_root
        /\ (NoGoogleLinks /\ AllTokens) => Downloads = {}

\* A second build over an unchanged site with files on two levels, all of
\* them probed and answering with an ETag, has returned.
C8_Witness ==
    /\ Built /\ unchanged /\ ~SharesNames(scraper.remote)
    /\ NoGoogleLinks /\ AllTokens
    /\ new_root.files # <<>>
    /\ \E i \in 1..Len(new_root.children) : new_root.children[i].files # <<>>
    /\ \E i \in 1..Len(calls) : calls[i][1] = "fetch_etag"

(***************************************************************************)
(* C9: build_tree downloads and re-hashes a file that is not a Google      *)
(* Drive link exactly when there is no prior file of the same location in  *)
(* the prior directory, or the probe returned no ETag, or the ETag differs *)
(* from the prior file's; otherwise it downloads nothing and the new file  *)
(* carries the prior file's hash and ETag.                                 *)
(***************************************************************************)
C9_DownloadDecision ==
    Built =>
        \A lvl \in BuildLevels(old_root, new_root) :
            \A i \in 1..Len(lvl[2].files) :
                LET f == lvl[2].files[i]
                    prior == PriorFile(lvl[1], f.url)
                    token == scraper.etag[f.url]
                    downloads == Count(calls, <<"download_file", f.url, lvl[2].local_path>>)
                    hashes == Count(calls, <<"compute_md5", f.url, lvl[2].local_path>>)
                IN  f.url \notin GoogleUrls =>
                        IF prior = NoFile \/ token \in {None, ""} \/ token # prior.etag
                        THEN /\ downloads = Listed(lvl[2].files, f.url)
                             /\ hashes = downloads
                             /\ f.md5_hash = scraper.content[f.url]
                        ELSE /\ downloads = 0
                             /\ hashes = 0
                             /\ f.md5_hash = prior.md5_hash
                             /\ f.etag = prior.etag

\* One build met both sides: a file without a prior file, which it fetched,
\* and a file whose ETag is the prior one, whose stored hash it kept although
\* it is not the hash of the file's bytes.
C9_Witness ==
    /\ Built /\ old_root # NoNode
    /\ \E lvl \in BuildLevels(old_root, new_root) :
          /\ lvl[1] # NoNode
          /\ \E i, j \in 1..Len(lvl[2].files) :
                LET f == lvl[2].files[i]
                    g == lvl[2].files[j]
                IN  /\ f.url \notin GoogleUrls /\ g.url \notin GoogleUrls
                    /\ PriorFile(lvl[1], f.url) = NoFile
                    /\ PriorFile(lvl[1], g.url) # NoFile
                    /\ scraper.etag[g.url] = PriorFile(lvl[1], g.url).etag
                    /\ g.md5_hash # scraper.content[g.url]

(***************************************************************************)
(* C10: a file whose location is a Google Drive link is downloaded and     *)
(* re-hashed at every build, with or without a prior file of the same      *)
(* location; it is never probed for an ETag and its etag is left unset.    *)
(***************************************************************************)
C10_GoogleAlwaysDownloaded ==
    Built =>
        /\ \A g \in GoogleUrls : <<"fetch_etag", g>> \notin Range(calls)
        /\ \A lvl \in BuildLevels(old_root, new_root) :
              \A i \in 1..Len(lvl[2].files) :
                LET f == lvl[2].files[i]
                IN  f.url \in GoogleUrls =>
                        /\ Count(calls, <<"download_file", f.url, lvl[2].local_path>>)
                                = Listed(lvl[2].files, f.url)
                        /\ Count(calls, <<"compute_md5", f.url, lvl[2].local_path>>)
                                = Listed(lvl[2].files, f.url)
                        /\ f.md5_hash = scraper.content[f.url]
                        /\ f.etag = None

\* A Google Drive file with a prior file of another hash was built.
C10_Witness ==
    /\ Built /\ old_root # NoNode
    /\ \E i \in 1..Len(new_root.files) :
          LET f == new_root.files[i]
              g == PriorFile(old_root, f.url)
          IN  /\ f.url \in GoogleUrls
              /\ g # NoFile
              /\ g.md5_hash # f.md5_hash
              /\ <<"download_file", f.url, new_root.local_path>> \in Range(calls)


(***************************************************************************)
(* The storage: the tables of the SQLite file, as sequences of rows in     *)
(* rowid order.  The connections are opened without PRAGMA foreign_keys,   *)
(* so the FOREIGN KEY clauses of the schema are not enforced and no        *)
(* ON DELETE CASCADE fires.                                                *)
(***************************************************************************)
\* The courses of the model.
CourseIds == {1, 2}

\* The most save_tree transactions begun in one behaviour.
MaxSaves == 2

\* The most rows of check_logs.
MaxLogs == 1

\* NULL in an INTEGER column; the rowids of an AUTOINCREMENT table start at 1.
Null == 0

\* The database after _create_tables.  seq is the row of sqlite_sequence
\* for the table nodes: the largest id ever given.
EmptyTables ==
    [courses |-> <<>>, nodes |-> <<>>, files |-> <<>>, seq |-> 0,
     change_records |-> <<>>, check_logs |-> <<>>]

\* The ids of the rows of the table courses.
StoredCourseIds(tables) == {tables.courses[i].id : i \in 1..Len(tables.courses)}

RECURSIVE CountNodes(_)
\* The number of INSERT INTO nodes that _save_recursive executes for node.
CountNodes(node) ==
    1 + Len(Flatten([i \in 1..Len(node.children) |->
                        [j \in 1..CountNodes(node.children[i]) |-> j]]))

RECURSIVE _save_recursive(_, _, _, _)
\* The rows _save_recursive inserts, in the order of its statements, when
\* cursor.lastrowid of the node's own row is current_db_id.
_save_recursive(course_id, node, parent_db_id, current_db_id) ==
    LET before(i) == Len(Flatten([j \in 1..(i - 1) |->
                        [k \in 1..CountNodes(node.children[j]) |-> k]]))
    IN  <<[table |-> "nodes", id |-> current_db_id, course_id |-> course_id,
           parent_id |-> parent_db_id, name |-> node.name, url |-> node.url,
           local_path |-> node.local_path]>>
        \o [i \in 1..Len(node.files) |->
              [table |-> "files", node_id |-> current_db_id,
               url |-> node.files[i].url, name |-> node.files[i].name,
               md5_hash |-> node.files[i].md5_hash, etag |-> node.files[i].etag]]
        \o Flatten([i \in 1..Len(node.children) |->
              _save_recursive(course_id, node.children[i], current_db_id,
                              current_db_id + 1 + before(i))])

\* Mutant of DeleteNodes: the foreign keys enforced, the files of the deleted
\* nodes deleted with them.
DeleteNodesCascading(tables, course_id) ==
    LET ids == {tables.nodes[i].id : i \in
                   {j \in 1..Len(tables.nodes) : tables.nodes[j].course_id = course_id}}
    IN  [tables EXCEPT
            !.nodes = SelectSeq(tables.nodes, LAMBDA r : r.course_id # course_id),
            !.files = SelectSeq(tables.files, LAMBDA r : r.node_id \notin ids)]

\* "DELETE FROM nodes WHERE course_id = ?"
DeleteNodes(tables, course_id) ==
    [tables EXCEPT
        !.nodes = SelectSeq(tables.nodes, LAMBDA r : r.course_id # course_id)]

\* One INSERT of _save_recursive.
InsertRow(tables, row) ==
    IF row.table = "nodes"
    THEN [tables EXCEPT !.nodes = Append(@, row), !.seq = row.id]
    ELSE [tables EXCEPT !.files = Append(@, row)]

\* change.startswith(prefix): the prefixes tested are the first token of
\* the messages the differ formats.
StartsWith(change, prefix) == change # <<>> /\ change[1] = prefix

\* change.replace(prefix, "").strip(): every occurrence of the prefix taken
\* out, then the blanks at both ends.
RECURSIVE Strip(_)
Strip(str) ==
    IF str # <<>> /\ str[1] = " " THEN Strip(Tail(str))
    ELSE IF str # <<>> /\ str[Len(str)] = " " THEN Strip(SubSeq(str, 1, Len(str) - 1))
    ELSE str

WithoutPrefix(change, prefix) == Strip(SelectSeq(change, LAMBDA t : t # prefix))

\* Mutant of CountChanges: the directories are not counted.
CountChangesFilesOnly(change_list) ==
    LET starting(prefixes) ==
            Cardinality({i \in 1..Len(change_list) :
                            \E pre \in prefixes : StartsWith(change_list[i], pre)})
    IN  [added |-> starting({"Added file:"}),
         deleted |-> starting({"Deleted file:"}),
         modified |-> starting({"Modified file:"})]

\* "Count change types": the three counts of the summary.
CountChanges(change_list) ==
    LET starting(prefixes) ==
            Cardinality({i \in 1..Len(change_list) :
                            \E pre \in prefixes : StartsWith(change_list[i], pre)})
    IN  [added |-> starting({"Added file:", "Added directory:"}),
         deleted |-> starting({"Deleted file:", "Deleted directory:"}),
         modified |-> starting({"Modified file:"})]

\* "Parse change type and file path": the row of change_record_items.
ChangeItem(change) ==
    CASE StartsWith(change, "Added file:") ->
            [change_type |-> "added_file",
             file_path |-> WithoutPrefix(change, "Added file:")]
      [] StartsWith(change, "Deleted file:") ->
            [change_type |-> "deleted_file",
             file_path |-> WithoutPrefix(change, "Deleted file:")]
      [] StartsWith(change, "Modified file:") ->
            [change_type |-> "modified_file",
             file_path |-> WithoutPrefix(change, "Modified file:")]
      [] StartsWith(change, "Added directory:") ->
            [change_type |-> "added_directory",
             file_path |-> WithoutPrefix(change, "Added directory:")]
      [] StartsWith(change, "Deleted directory:") ->
            [change_type |-> "deleted_directory",
             file_path |-> WithoutPrefix(change, "Deleted directory:")]
      [] OTHER -> [change_type |-> "unknown", file_path |-> change]

\* create_change_record: the row of change_records, with the counts of its
\* summary, and the rows of change_record_items (change_no apart, which is
\* modelled with the insert loop).  The statements are executed and not
\* committed.
create_change_record(tables, course_id, change_list) ==
    [tables EXCEPT !.change_records =
        Append(@, [course_id |-> course_id,
                   message |-> CountChanges(change_list),
                   changes_count |-> Len(change_list),
                   items |-> [i \in 1..Len(change_list) |->
                                ChangeItem(change_list[i])]])]

\* "SELECT id, parent_id, name, url, local_path FROM nodes WHERE course_id = ?"
SelectNodes(tables, course_id) ==
    SelectSeq(tables.nodes, LAMBDA r : r.course_id = course_id)

\* "SELECT node_id, url, name, md5_hash, etag FROM files WHERE node_id IN (...)"
SelectFiles(tables, nodes_data) ==
    SelectSeq(tables.files,
              LAMBDA r : r.node_id \in {nodes_data[i].id : i \in 1..Len(nodes_data)})

RECURSIVE Assemble(_, _, _)
\* Mutant of Assemble: the children appended from the last row to the first.
AssembleBackwards(db_id, nodes_data, files_data) ==
    LET row == CHOOSE r \in Range(nodes_data) : r.id = db_id
        kids == SelectSeq(nodes_data, LAMBDA r : r.parent_id # Null /\ r.parent_id = db_id)
        fs == SelectSeq(files_data, LAMBDA r : r.node_id = db_id)
    IN  Node(row.name, row.url, row.local_path,
             [i \in 1..Len(kids) |->
                Assemble(kids[Len(kids) + 1 - i].id, nodes_data, files_data)],
             [i \in 1..Len(fs) |-> File(fs[i].url, fs[i].name, fs[i].md5_hash, fs[i].etag)])

\* The Node object node_objects[db_id] once load_tree has appended the
\* children and the files, as a value.
Assemble(db_id, nodes_data, files_data) ==
    LET row == CHOOSE r \in Range(nodes_data) : r.id = db_id
        kids == SelectSeq(nodes_data, LAMBDA r : r.parent_id # Null /\ r.parent_id = db_id)
        fs == SelectSeq(files_data, LAMBDA r : r.node_id = db_id)
    IN  Node(row.name, row.url, row.local_path,
             [i \in 1..Len(kids) |-> Assemble(kids[i].id, nodes_data, files_data)],
             [i \in 1..Len(fs) |-> File(fs[i].url, fs[i].name, fs[i].md5_hash, fs[i].etag)])

\* load_tree, from the rows of its two SELECTs.
load_tree(nodes_data, files_data) ==
    IF nodes_data = <<>> THEN NoNode
    ELSE LET roots == SelectSeq(nodes_data, LAMBDA r : r.parent_id = Null)
         IN  IF roots = <<>> THEN NoNode
             ELSE Assemble(roots[Len(roots)].id, nodes_data, files_data)

\* load_tree run at once on the committed tables.
Stored(tables, course_id) ==
    LET nodes_data == SelectNodes(tables, course_id)
    IN  load_tree(nodes_data, SelectFiles(tables, nodes_data))

\* The snapshots handed to save_tree, of a course mirrored in "dl": the
\* root alone, two files, a directory with a file, and files at two levels
\* with two directories of one name.
StoreTrees ==
    {Node("root", "/course", <<"dl">>, <<>>, <<>>),
     Node("root", "/course", <<"dl">>, <<>>,
          <<File("u1", "f1", "h1", "e1"), File("u2", "f2", "h2", None)>>),
     Node("root", "/course", <<"dl">>,
          <<Node("Labs", "/a", <<"dl", "/", "Labs">>, <<>>,
                 <<File("u1", "f1", "h1", "e1")>>)>>, <<>>),
     Node("root", "/course", <<"dl">>,
          <<Node("Labs", "/a", <<"dl", "/", "Labs">>, <<>>, <<>>),
            Node("Labs", "/b", <<"dl", "/", "Labs">>, <<>>,
                 <<File("u2", "f2", "h2", None)>>)>>,
          <<File("u1", "f1", "h2", "e1")>>)}

\* The change lists handed to log_changes.
StoreChanges == {<<Msg("Added file:", <<"dl", "/", "f1">>)>>}

\* The number of save_tree transactions committed so far.
Saves == Len(Flatten([c \in 1..2 |-> Tail(versions[c])]))

\* The database once the courses of the model were added.
InitStore ==
    /\ db = [EmptyTables EXCEPT
                !.courses = <<[id |-> 1, name |-> "root", download_folder |-> <<"dl">>],
                              [id |-> 2, name |-> "root", download_folder |-> <<"dl">>]>>]
    /\ wtx = NoNode
    /\ reader = NoNode
    /\ versions = [c \in CourseIds |-> <<NoNode>>]
    /\ deleted = {}
    /\ DiffIdle /\ BuildIdle /\ CycleIdle /\ WebIdle /\ HeapIdle
    /\ StatusIdle /\ HttpIdle /\ RecordIdle

\* save_course: INSERT OR REPLACE INTO courses, committed.
save_course(course_id, name, download_folder) ==
    /\ wtx = NoNode
    /\ course_id \notin StoredCourseIds(db)
    /\ db' = [db EXCEPT !.courses =
                SelectSeq(@, LAMBDA r : r.id < course_id)
                \o <<[id |-> course_id, name |-> name,
                      download_folder |-> download_folder]>>
                \o SelectSeq(@, LAMBDA r : r.id > course_id)]
    /\ UNCHANGED <<wtx, reader, versions, deleted>>
    /\ UNCHANGED <<diffVars, buildVars, cycleVars, webVars, heapVars, statusVars,
                 httpVars, recordVars>>

\* log_check_event with a course_id: one row of check_logs, committed.
log_check_event(course_id, log_type) ==
    /\ wtx = NoNode
    /\ course_id \in StoredCourseIds(db)
    /\ Len(db.check_logs) < MaxLogs
    /\ db' = [db EXCEPT !.check_logs =
                Append(@, [course_id |-> course_id, log_type |-> log_type])]
    /\ deleted' = deleted \ {course_id}
    /\ UNCHANGED <<wtx, reader, versions>>
    /\ UNCHANGED <<diffVars, buildVars, cycleVars, webVars, heapVars, statusVars,
                 httpVars, recordVars>>

\* log_changes, as process_course calls it before save_tree: the change
\* record is inserted in the transaction that save_tree will end.
log_changes(course_id, change_list) ==
    /\ wtx = NoNode
    /\ course_id \in StoredCourseIds(db)
    /\ Saves + 1 <= MaxSaves
    /\ wtx' = [pc |-> "logged", course_id |-> course_id,
               tables |-> create_change_record(db, course_id, change_list)]
    /\ UNCHANGED <<db, reader, versions, deleted>>
    /\ UNCHANGED <<diffVars, buildVars, cycleVars, webVars, heapVars, statusVars,
                 httpVars, recordVars>>

\* save_tree up to its DELETE: the transaction holds the old rows deleted
\* and the rows to insert.
SaveTreeBegin(course_id, root_node) ==
    /\ \/ wtx = NoNode /\ course_id \in StoredCourseIds(db) /\ Saves + 1 <= MaxSaves
       \/ wtx # NoNode /\ wtx.pc = "logged" /\ wtx.course_id = course_id
    /\ LET base == IF wtx = NoNode THEN db ELSE wtx.tables
       IN  wtx' = [pc |-> "saving", course_id |-> course_id, root_node |-> root_node,
                   tables |-> DeleteNodes(base, course_id),
                   rows |-> _save_recursive(course_id, root_node, Null, base.seq + 1)]
    /\ UNCHANGED <<db, reader, versions, deleted>>
    /\ UNCHANGED <<diffVars, buildVars, cycleVars, webVars, heapVars, statusVars,
                 httpVars, recordVars>>

\* save_tree: the next INSERT of _save_recursive.
SaveTreeInsert ==
    /\ wtx # NoNode /\ wtx.pc = "saving" /\ wtx.rows # <<>>
    /\ wtx' = [wtx EXCEPT !.tables = InsertRow(@, Head(wtx.rows)),
                          !.rows = Tail(@)]
    /\ UNCHANGED <<db, reader, versions, deleted>>
    /\ UNCHANGED <<diffVars, buildVars, cycleVars, webVars, heapVars, statusVars,
                 httpVars, recordVars>>

\* save_tree: self.conn.commit()
SaveTreeCommit ==
    /\ wtx # NoNode /\ wtx.pc = "saving" /\ wtx.rows = <<>>
    /\ db' = wtx.tables
    /\ wtx' = NoNode
    /\ versions' = [versions EXCEPT ![wtx.course_id] = Append(@, wtx.root_node)]
    /\ deleted' = deleted \ {wtx.course_id}
    /\ UNCHANGED reader
    /\ UNCHANGED <<diffVars, buildVars, cycleVars, webVars, heapVars, statusVars,
                 httpVars, recordVars>>

\* save_tree: a statement raises, self.conn.rollback()
SaveTreeFail ==
    /\ wtx # NoNode /\ wtx.pc = "saving"
    /\ wtx' = NoNode
    /\ UNCHANGED <<db, reader, versions, deleted>>
    /\ UNCHANGED <<diffVars, buildVars, cycleVars, webVars, heapVars, statusVars,
                 httpVars, recordVars>>

\* delete_course: two DELETEs, committed.
delete_course(course_id) ==
    /\ wtx = NoNode
    /\ course_id \in StoredCourseIds(db)
    /\ db' = [db EXCEPT
                !.check_logs = SelectSeq(@, LAMBDA r : r.course_id # course_id),
                !.courses = SelectSeq(@, LAMBDA r : r.id # course_id)]
    /\ deleted' = deleted \cup {course_id}
    /\ UNCHANGED <<wtx, reader, versions>>
    /\ UNCHANGED <<diffVars, buildVars, cycleVars, webVars, heapVars, statusVars,
                 httpVars, recordVars>>

\* reset_course_data: four DELETEs, committed (change_history is not
\* modelled).
reset_course_data(course_id) ==
    /\ wtx = NoNode
    /\ course_id \in StoredCourseIds(db)
    /\ Stored(db, course_id) # NoNode
    /\ db' = [DeleteNodes(db, course_id) EXCEPT
                !.change_records = SelectSeq(@, LAMBDA r : r.course_id # course_id),
                !.check_logs = SelectSeq(@, LAMBDA r : r.course_id # course_id)]
    /\ versions' = [versions EXCEPT ![course_id] = Append(@, NoNode)]
    /\ UNCHANGED <<wtx, reader, deleted>>
    /\ UNCHANGED <<diffVars, buildVars, cycleVars, webVars, heapVars, statusVars,
                 httpVars, recordVars>>

\* load_tree on another connection: the SELECT on nodes.  With no row it
\* returns None at once.
LoadTreeNodes(course_id) ==
    /\ reader = NoNode
    /\ LET nodes_data == SelectNodes(db, course_id)
       IN  reader' = [course_id |-> course_id, nodes_data |-> nodes_data,
                      since |-> Len(versions[course_id]),
                      pc |-> IF nodes_data = <<>> THEN "returned" ELSE "files",
                      tree |-> NoNode]
    /\ UNCHANGED <<db, wtx, versions, deleted>>
    /\ UNCHANGED <<diffVars, buildVars, cycleVars, webVars, heapVars, statusVars,
                 httpVars, recordVars>>

\* load_tree on another connection: the SELECT on files, and the return.
LoadTreeFiles ==
    /\ reader # NoNode /\ reader.pc = "files"
    /\ reader' = [reader EXCEPT
                    !.pc = "returned",
                    !.tree = load_tree(reader.nodes_data,
                                       SelectFiles(db, reader.nodes_data))]
    /\ UNCHANGED <<db, wtx, versions, deleted>>
    /\ UNCHANGED <<diffVars, buildVars, cycleVars, webVars, heapVars, statusVars,
                 httpVars, recordVars>>

\* The caller of load_tree goes on.
LoadTreeDone ==
    /\ reader # NoNode /\ reader.pc = "returned"
    /\ reader' = NoNode
    /\ UNCHANGED <<db, wtx, versions, deleted>>
    /\ UNCHANGED <<diffVars, buildVars, cycleVars, webVars, heapVars, statusVars,
                 httpVars, recordVars>>

\* db_manager.log_changes(course_id, changes) on the changes the differ
\* returned, when there are any: the change record in the transaction of the
\* checker's connection.
LogChanges ==
    /\ dpc = "done"
    /\ changes # <<>>
    /\ wtx' = [pc |-> "logged", course_id |-> 1,
               tables |-> create_change_record(EmptyTables, 1, changes)]
    /\ dpc' = "logged"
    /\ UNCHANGED <<previous, latest, changes>>
    /\ UNCHANGED <<db, reader, versions, deleted>>
    /\ UNCHANGED <<buildVars, cycleVars, webVars, heapVars, statusVars,
                   httpVars, recordVars>>

NextDiff == RunDiff \/ LogChanges

SpecDiff == InitDiff /\ [][NextDiff]_vars

\* The checker's connection and a reader's.
NextStore ==
    \/ \E c \in CourseIds, l \in StoreChanges : log_changes(c, l)
    \/ \E c \in CourseIds, t \in StoreTrees : SaveTreeBegin(c, t)
    \/ SaveTreeInsert
    \/ SaveTreeCommit
    \/ SaveTreeFail
    \/ \E c \in CourseIds : reset_course_data(c)
    \/ \E c \in CourseIds : LoadTreeNodes(c)
    \/ LoadTreeFiles
    \/ LoadTreeDone

SpecStore == InitStore /\ [][NextStore]_vars

\* An empty database, as _create_tables leaves it.
InitCourses ==
    /\ db = EmptyTables
    /\ wtx = NoNode
    /\ reader = NoNode
    /\ versions = [c \in CourseIds |-> <<NoNode>>]
    /\ deleted = {}
    /\ DiffIdle /\ BuildIdle /\ CycleIdle /\ WebIdle /\ HeapIdle
    /\ StatusIdle /\ HttpIdle /\ RecordIdle

\* Courses added, checked and deleted.
NextCourses ==
    \/ \E c \in CourseIds : save_course(c, "root", <<"dl">>)
    \/ \E c \in CourseIds : log_check_event(c, "course_check_start")
    \/ \E c \in CourseIds, l \in StoreChanges : log_changes(c, l)
    \/ \E c \in CourseIds, t \in StoreTrees : SaveTreeBegin(c, t)
    \/ SaveTreeInsert
    \/ SaveTreeCommit
    \/ SaveTreeFail
    \/ \E c \in CourseIds : delete_course(c)

SpecCourses == InitCourses /\ [][NextCourses]_vars


(***************************************************************************)
(* checker.py: process_course and run_checker.                             *)
(***************************************************************************)
RECURSIVE InsertRows(_, _)
\* The INSERTs of _save_recursive, one after the other.
InsertRows(tables, rows) ==
    IF rows = <<>> THEN tables
    ELSE InsertRows(InsertRow(tables, Head(rows)), Tail(rows))

\* save_tree when no statement raises: the tables it commits.
save_tree(tables, course_id, root_node) ==
    InsertRows(DeleteNodes(tables, course_id),
               _save_recursive(course_id, root_node, Null, tables.seq + 1))

\* "SELECT id, name, download_folder FROM courses"
get_courses(tables) == tables.courses

\* Mutant of process_course: a failed build clears the stored snapshot.
process_course_clearing(tables, course, site, fault) ==
    LET old == IF fault = "load" THEN NoNode ELSE Stored(tables, course.id)
        built == build_tree(site, "/course", course.download_folder, course.name, old)
        found == IF fault = "diff" THEN <<>> ELSE diff_trees(old, built.node)
        logged == IF found # <<>> /\ fault # "log"
                  THEN create_change_record(tables, course.id, found)
                  ELSE tables
    IN  IF built.raised
        THEN [changes |-> <<>>, success |-> FALSE,
              tables |-> DeleteNodes(tables, course.id),
              old_root |-> old, new_root |-> NoNode,
              calls |-> built.calls, raised |-> TRUE]
        ELSE IF fault = "save"
        THEN [changes |-> found, success |-> FALSE, tables |-> tables,
              old_root |-> old, new_root |-> built.node,
              calls |-> built.calls, raised |-> FALSE]
        ELSE [changes |-> found, success |-> TRUE,
              tables |-> save_tree(logged, course.id, built.node),
              old_root |-> old, new_root |-> built.node,
              calls |-> built.calls, raised |-> FALSE]

\* Mutant of process_course: the change record committed by log_changes, so
\* that a failed save_tree leaves it stored.
process_course_committing(tables, course, site, fault) ==
    LET old == IF fault = "load" THEN NoNode ELSE Stored(tables, course.id)
        built == build_tree(site, "/course", course.download_folder, course.name, old)
        found == IF fault = "diff" THEN <<>> ELSE diff_trees(old, built.node)
        logged == IF found # <<>> /\ fault # "log"
                  THEN create_change_record(tables, course.id, found)
                  ELSE tables
    IN  IF built.raised
        THEN [changes |-> <<>>, success |-> FALSE, tables |-> tables,
              old_root |-> old, new_root |-> NoNode,
              calls |-> built.calls, raised |-> TRUE]
        ELSE IF fault = "save"
        THEN [changes |-> found, success |-> FALSE, tables |-> logged,
              old_root |-> old, new_root |-> built.node,
              calls |-> built.calls, raised |-> FALSE]
        ELSE [changes |-> found, success |-> TRUE,
              tables |-> save_tree(logged, course.id, built.node),
              old_root |-> old, new_root |-> built.node,
              calls |-> built.calls, raised |-> FALSE]

\* process_course: what it returns (changes, success), the tables it leaves
\* committed, and what it had in hand (old_root, new_root, the calls made on
\* the scraper, whether build_tree raised).  fault names what else fails:
\* "load" (load_tree raises: old_root = None), "diff" (diff_trees raises:
\* changes = []), "log" (log_changes raises at its first statement) or
\* "save" (save_tree raises: rollback of the transaction, which holds the
\* change record too).
process_course(tables, course, site, fault) ==
    LET old == IF fault = "load" THEN NoNode ELSE Stored(tables, course.id)
        built == build_tree(site, "/course", course.download_folder, course.name, old)
        found == IF fault = "diff" THEN <<>> ELSE diff_trees(old, built.node)
        logged == IF found # <<>> /\ fault # "log"
                  THEN create_change_record(tables, course.id, found)
                  ELSE tables
    IN  IF built.raised
        THEN [changes |-> <<>>, success |-> FALSE, tables |-> tables,
              old_root |-> old, new_root |-> NoNode,
              calls |-> built.calls, raised |-> TRUE]
        ELSE IF fault = "save"
        THEN [changes |-> found, success |-> FALSE, tables |-> tables,
              old_root |-> old, new_root |-> built.node,
              calls |-> built.calls, raised |-> FALSE]
        ELSE [changes |-> found, success |-> TRUE,
              tables |-> save_tree(logged, course.id, built.node),
              old_root |-> old, new_root |-> built.node,
              calls |-> built.calls, raised |-> FALSE]

\* all_changes[key] = value on a dict held as a sequence of (key, value):
\* a new key is appended, the value of a present key is replaced.
DictSet(dict, key, value) ==
    IF \E i \in 1..Len(dict) : dict[i][1] = key
    THEN [i \in 1..Len(dict) |-> IF dict[i][1] = key THEN <<key, value>> ELSE dict[i]]
    ELSE Append(dict, <<key, value>>)

\* send_email with an email configuration set: the courses named in
\* changes_by_course of which the first course of that name has a change
\* record make email_data; with none nothing is sent, else the plain part
\* (plain) lists every entry of changes_by_course.
send_email(changes_by_course, tables) ==
    LET all == get_courses(tables)
        HasRecord(course_name) ==
            /\ \E i \in 1..Len(all) : all[i].name = course_name
            /\ LET first == CHOOSE i \in 1..Len(all) :
                               /\ all[i].name = course_name
                               /\ \A j \in 1..(i - 1) : all[j].name # course_name
               IN  \E k \in 1..Len(tables.change_records) :
                       tables.change_records[k].course_id = all[first].id
        email_data == SelectSeq(changes_by_course,
                                LAMBDA e : e[2] # <<>> /\ HasRecord(e[1]))
    IN  IF email_data = <<>> THEN NoNode
        ELSE [plain |-> SelectSeq(changes_by_course, LAMBDA e : e[2] # <<>>)]

(***************************************************************************)
(* The check cycle run on a database of one or two courses, each with or   *)
(* without a snapshot stored by an earlier check.                          *)
(***************************************************************************)
\* The course lists: one course, two courses, two courses of one name.
CourseLists ==
    {<<[id |-> 1, name |-> "A", download_folder |-> <<"dl1">>]>>,
     <<[id |-> 1, name |-> "A", download_folder |-> <<"dl1">>],
       [id |-> 2, name |-> "B", download_folder |-> <<"dl2">>]>>,
     <<[id |-> 1, name |-> "A", download_folder |-> <<"dl1">>],
       [id |-> 2, name |-> "A", download_folder |-> <<"dl2">>]>>}

\* A listing.
Listing(name, url, children, files) ==
    [name |-> name, url |-> url, children |-> children, files |-> files]

\* The hierarchies of a course page: one file; a directory with a file; and
\* three with two directories of one display name, which differ in the
\* first directory only (RC and RD) or in the last only (RC and RE).
RA == Listing("root", "/course", <<>>, <<[url |-> "u1", name |-> "f1"]>>)
RB == Listing("root", "/course",
        <<Listing("Labs", "/a", <<>>, <<[url |-> "u1", name |-> "f1"]>>)>>, <<>>)
RC == Listing("root", "/course",
        <<Listing("Labs", "/a", <<>>, <<[url |-> "u1", name |-> "f1"]>>),
          Listing("Labs", "/b", <<>>, <<[url |-> "u2", name |-> "f2"]>>)>>, <<>>)
RD == Listing("root", "/course",
        <<Listing("Labs", "/a2", <<>>, <<[url |-> "u2", name |-> "f2"]>>),
          Listing("Labs", "/b", <<>>, <<[url |-> "u2", name |-> "f2"]>>)>>, <<>>)
RE == Listing("root", "/course",
        <<Listing("Labs", "/a", <<>>, <<[url |-> "u1", name |-> "f1"]>>),
          Listing("Labs", "/b2", <<>>, <<[url |-> "u1", name |-> "f1"]>>)>>, <<>>)

\* A site showing the hierarchy remote, on which the calls of fails raise.
Site(remote, fails) ==
    [remote |-> remote,
     etag |-> [u \in FileUrls |-> IF u \in GoogleUrls THEN None ELSE "e1"],
     content |-> SiteContent, fails |-> fails]

\* The sites on which a call raises: the listing of the course page, a
\* download at it (not made when the stored validator is the site's), and
\* a listing, a download and a hashing below it.
FailingSites ==
    {Site(RA, {<<"get_links", "/course">>}), Site(RA, {<<"download_file", "u1">>}),
     Site(RB, {<<"get_links", "/a">>}),
     Site(RB, {<<"download_file", "u1">>}), Site(RB, {<<"compute_md5", "u1">>})}

\* (the site at the earlier check or NoNode, the site now, the fault now),
\* for one course.
CycleInputs ==
    ({NoNode, Site(RA, {}), Site(RC, {})}
        \X {Site(r, {}) : r \in {RA, RB, RC, RD, RE}} \X {"none"})
    \cup ({NoNode, Site(RA, {}), Site(RC, {})} \X FailingSites \X {"none"})
    \cup ({NoNode, Site(RA, {}), Site(RC, {})}
            \X {Site(RA, {}), Site(RB, {})} \X {"load", "diff", "log", "save"})

RECURSIVE EarlierChecks(_, _, _)
\* The tables after the earlier checks of the courses that had one.
EarlierChecks(tables, list, inputs) ==
    IF list = <<>> THEN tables
    ELSE EarlierChecks(
            IF inputs[1][1] = NoNode THEN tables
            ELSE process_course(tables, list[1], inputs[1][1], "none").tables,
            Tail(list), Tail(inputs))

InitCycle ==
    /\ \E list \in CourseLists :
         \E inputs \in [1..Len(list) -> CycleInputs] :
            /\ db = EarlierChecks([EmptyTables EXCEPT !.courses = list], list, inputs)
            /\ sites = [i \in 1..Len(list) |-> inputs[i][2]]
            /\ faults = [i \in 1..Len(list) |-> inputs[i][3]]
    /\ courses = <<>>
    /\ idx = 0
    /\ all_changes = <<>>
    /\ results = <<>>
    /\ sent = NoNode
    /\ rpc = "start"
    /\ wtx = NoNode /\ reader = NoNode /\ versions = <<>> /\ deleted = {}
    /\ DiffIdle /\ BuildIdle /\ WebIdle /\ HeapIdle
    /\ StatusIdle /\ HttpIdle /\ RecordIdle

\* run_checker: courses = db_manager.get_courses()
GetCourses ==
    /\ rpc = "start"
    /\ courses' = get_courses(db)
    /\ rpc' = IF get_courses(db) = <<>> THEN "done" ELSE "loop"
    /\ UNCHANGED <<db, sites, faults, idx, all_changes, results, sent>>
    /\ UNCHANGED <<wtx, reader, versions, deleted>>
    /\ UNCHANGED <<diffVars, buildVars, webVars, heapVars, statusVars,
                 httpVars, recordVars>>

\* run_checker: one turn of "for course in courses".
ProcessCourse ==
    /\ rpc = "loop"
    /\ idx < Len(courses)
    /\ LET course == courses[idx + 1]
           got == process_course(db, course, sites[idx + 1], faults[idx + 1])
       IN  /\ db' = got.tables
           /\ results' = Append(results, [course |-> course] @@ got)
           /\ all_changes' = IF got.success /\ got.changes # <<>>
                             THEN DictSet(all_changes, course.name, got.changes)
                             ELSE all_changes
    /\ idx' = idx + 1
    /\ UNCHANGED <<courses, sites, faults, sent, rpc>>
    /\ UNCHANGED <<wtx, reader, versions, deleted>>
    /\ UNCHANGED <<diffVars, buildVars, webVars, heapVars, statusVars,
                 httpVars, recordVars>>

\* run_checker: after the loop, send_email(all_changes, db_manager) when
\* all_changes is not empty.
Notify ==
    /\ rpc = "loop"
    /\ idx = Len(courses)
    /\ sent' = IF all_changes # <<>> THEN send_email(all_changes, db) ELSE NoNode
    /\ rpc' = "done"
    /\ UNCHANGED <<db, courses, sites, faults, idx, all_changes, results>>
    /\ UNCHANGED <<wtx, reader, versions, deleted>>
    /\ UNCHANGED <<diffVars, buildVars, webVars, heapVars, statusVars,
                 httpVars, recordVars>>

NextCycle == GetCourses \/ ProcessCourse \/ Notify

SpecCycle == InitCycle /\ [][NextCycle]_vars

(***************************************************************************)
(* web/app.py: the routes /run-check and /courses/{id}/check, and the      *)
(* background tasks they add.  The handlers are coroutines without an      *)
(* await and run on the event loop thread one at a time.  The task of      *)
(* /run-check is a coroutine: it runs on the event loop thread, and        *)
(* run_checker, which never awaits, keeps that thread until it returns.    *)
(* The task of /courses/{id}/check is a function: it runs on a thread of   *)
(* the pool and enters the lock in an event loop of its own.  check_lock   *)
(* is one asyncio.Lock (Python 3.11): locked, the deque _waiters (None     *)
(* until a first acquire had to wait) and the loop it is bound to by the   *)
(* first acquire that had to wait.                                         *)
(***************************************************************************)
\* The most requests in one behaviour.
MaxRequests == 4

\* check_lock = asyncio.Lock()
NewLock == [locked |-> FALSE, waiters |-> NoNode, bound |-> NoNode]

\* The event loop a task runs its acquire in: the server's for the task of
\* /run-check, the loop of asyncio.run for the task of a course check.
LoopOf(i) == IF tasks[i].kind = "run-check" THEN [thread |-> 0] ELSE [thread |-> i]

\* The requests accepted whose task has not ended.
Unfinished ==
    {i \in 1..Len(tasks) : tasks[i].pc \in {"accepted", "entering", "waiting", "checking"}}

\* A handler: 409 when check_lock.locked(), else the task is added and the
\* request answered "started" / "success".  pending records the requests
\* accepted earlier whose task had not ended then.
Handle(kind) ==
    /\ loop = 0
    /\ Len(tasks) < MaxRequests
    /\ tasks' = Append(tasks,
                  [kind |-> kind,
                   pc |-> IF check_lock.locked THEN "rejected" ELSE "accepted",
                   answer |-> IF check_lock.locked THEN 409 ELSE 200,
                   pending |-> Unfinished])
    /\ UNCHANGED <<check_lock, loop>>
    /\ UNCHANGED <<diffVars, buildVars, storeVars, cycleVars, heapVars, statusVars,
                 httpVars, recordVars>>

\* POST /run-check
run_check == Handle("run-check")

\* POST /courses/{course_id}/check, for a course that exists
check_course == Handle("course-check")

\* Lock.acquire up to its first test: "if not self._locked and
\* (self._waiters is None or all(w.cancelled() ...))".  When the test holds
\* and _waiters is None the assignment follows with no call in between;
\* with a deque the test calls all(), where the interpreter may switch to
\* another thread before the assignment.  When the test fails the lock is
\* bound to the task's loop (RuntimeError when bound to another one, which
\* the task catches) and the task waits.
Acquire(i) ==
    /\ i \in 1..Len(tasks)
    /\ tasks[i].pc = "accepted"
    /\ tasks[i].kind = "run-check" => loop = 0
    /\ IF ~check_lock.locked
          /\ (check_lock.waiters = NoNode \/ check_lock.waiters.deque = <<>>)
       THEN IF check_lock.waiters = NoNode
            THEN /\ check_lock' = [check_lock EXCEPT !.locked = TRUE]
                 /\ tasks' = [tasks EXCEPT ![i].pc = "checking"]
                 /\ loop' = IF tasks[i].kind = "run-check" THEN i ELSE loop
            ELSE /\ tasks' = [tasks EXCEPT ![i].pc = "entering"]
                 /\ loop' = IF tasks[i].kind = "run-check" THEN i ELSE loop
                 /\ UNCHANGED check_lock
       ELSE IF check_lock.bound \notin {NoNode, LoopOf(i)}
            THEN /\ tasks' = [tasks EXCEPT ![i].pc = "failed"]
                 /\ UNCHANGED <<check_lock, loop>>
            ELSE /\ check_lock' =
                      [check_lock EXCEPT
                          !.bound = LoopOf(i),
                          !.waiters =
                              [deque |->
                                  Append(IF check_lock.waiters = NoNode THEN <<>>
                                         ELSE check_lock.waiters.deque,
                                         [task |-> i, done |-> FALSE])]]
                 /\ tasks' = [tasks EXCEPT ![i].pc = "waiting"]
                 /\ UNCHANGED loop
    /\ UNCHANGED <<diffVars, buildVars, storeVars, cycleVars, heapVars, statusVars,
                 httpVars, recordVars>>

\* Lock.acquire after its first test held: "self._locked = True", and the
\* check starts.
Enter(i) ==
    /\ i \in 1..Len(tasks)
    /\ tasks[i].pc = "entering"
    /\ check_lock' = [check_lock EXCEPT !.locked = TRUE]
    /\ tasks' = [tasks EXCEPT ![i].pc = "checking"]
    /\ UNCHANGED loop
    /\ UNCHANGED <<diffVars, buildVars, storeVars, cycleVars, heapVars, statusVars,
                 httpVars, recordVars>>

\* Lock.acquire of a task that waited and whose future was set: the future
\* leaves the deque, "self._locked = True", and the check starts.
Resume(i) ==
    /\ i \in 1..Len(tasks)
    /\ tasks[i].pc = "waiting"
    /\ [task |-> i, done |-> TRUE] \in Range(check_lock.waiters.deque)
    /\ tasks[i].kind = "run-check" => loop = 0
    /\ check_lock' = [check_lock EXCEPT
                        !.locked = TRUE,
                        !.waiters = [deque |-> SelectSeq(check_lock.waiters.deque,
                                                         LAMBDA w : w.task # i)]]
    /\ tasks' = [tasks EXCEPT ![i].pc = "checking"]
    /\ loop' = IF tasks[i].kind = "run-check" THEN i ELSE loop
    /\ UNCHANGED <<diffVars, buildVars, storeVars, cycleVars, heapVars, statusVars,
                 httpVars, recordVars>>

\* The check returns and the lock is released: "self._locked = False" and
\* the future of the first waiter is set (RuntimeError, caught by the task,
\* when the lock is not locked).
Finish(i) ==
    /\ i \in 1..Len(tasks)
    /\ tasks[i].pc = "checking"
    /\ check_lock' =
          IF ~check_lock.locked \/ check_lock.waiters = NoNode
                \/ check_lock.waiters.deque = <<>>
          THEN [check_lock EXCEPT !.locked = FALSE]
          ELSE [check_lock EXCEPT
                  !.locked = FALSE,
                  !.waiters = [deque |->
                      <<[task |-> check_lock.waiters.deque[1].task, done |-> TRUE]>>
                      \o Tail(check_lock.waiters.deque)]]
    /\ tasks' = [tasks EXCEPT ![i].pc = "done"]
    /\ loop' = IF loop = i THEN 0 ELSE loop
    /\ UNCHANGED <<diffVars, buildVars, storeVars, cycleVars, heapVars, statusVars,
                 httpVars, recordVars>>

InitWeb ==
    /\ check_lock = NewLock
    /\ tasks = <<>>
    /\ loop = 0
    /\ DiffIdle /\ BuildIdle /\ StoreIdle /\ CycleIdle /\ HeapIdle
    /\ StatusIdle /\ HttpIdle /\ RecordIdle

NextWeb ==
    \/ run_check
    \/ check_course
    \/ \E i \in 1..MaxRequests : Acquire(i)
    \/ \E i \in 1..MaxRequests : Enter(i)
    \/ \E i \in 1..MaxRequests : Resume(i)
    \/ \E i \in 1..MaxRequests : Finish(i)

SpecWeb == InitWeb /\ [][NextWeb]_vars

(***************************************************************************)
(* Claims about the storage.                                               *)
(***************************************************************************)
\* The snapshot of a course committed last.
LastVersion(c) == versions[c][Len(versions[c])]

\* C14: the replacement of a snapshot by save_tree is atomic for a reader
\* on another connection.  The committed tables always hold, for every
\* course, the snapshot committed last, whatever statements of a
\* transaction were executed and rolled back; and a load_tree that has
\* returned returned one of the snapshots committed between its first
\* SELECT and its return, whole, or None when there was none.
C14_AtomicReplace ==
    /\ \A c \in CourseIds : Stored(db, c) = LastVersion(c)
    /\ (reader # NoNode /\ reader.pc = "returned")
         => reader.tree \in {versions[reader.course_id][i] :
                               i \in reader.since..Len(versions[reader.course_id])}

\* A load_tree whose two SELECTs straddle the commit of a save_tree of the
\* same course, the prior snapshot holding files.
C14_Witness ==
    /\ reader # NoNode /\ reader.pc = "returned"
    /\ Len(versions[reader.course_id]) > reader.since
    /\ reader.tree # NoNode
    /\ reader.tree.files # <<>>
    /\ reader.tree # LastVersion(reader.course_id)
    /\ LastVersion(reader.course_id) # NoNode

\* C18: after delete_course(c) no row of c is left in nodes, change_records
\* and check_logs, and load_tree(c) returns None, also once a course is
\* added again with that id, as long as nothing was written for it.
C18_DeleteRemovesAll ==
    \A c \in deleted :
        /\ Stored(db, c) = NoNode
        /\ SelectNodes(db, c) = <<>>
        /\ \A i \in 1..Len(db.change_records) : db.change_records[i].course_id # c
        /\ \A i \in 1..Len(db.check_logs) : db.check_logs[i].course_id # c


(***************************************************************************)
(* Claims about the check cycle.                                           *)
(***************************************************************************)
\* The calls build_tree made for the i-th course that the site fails.
FailedCalls(i) ==
    {k \in 1..Len(results[i].calls) :
        <<results[i].calls[k][1], results[i].calls[k][2]>> \in sites[i].fails}

\* C11: a listing, a download or a hashing that fails, at the course page
\* or below it, leaves build_tree as an exception: the build of a course
\* raised exactly when it made a call that fails, that call is the last one
\* it made, and no Node was returned.
C11_FailurePropagates ==
    \A i \in 1..Len(results) :
        /\ results[i].raised <=> FailedCalls(i) # {}
        /\ results[i].raised =>
              /\ results[i].new_root = NoNode
              /\ FailedCalls(i) = {Len(results[i].calls)}
              /\ ~results[i].success

\* A build that raised below the course page, after calls that succeeded.
C11_Witness ==
    \E i \in 1..Len(results) :
        /\ results[i].raised
        /\ Len(results[i].calls) >= 3
        /\ results[i].calls[Len(results[i].calls)][1] = "compute_md5"
        /\ results[i].old_root # NoNode

\* C12: a turn of the loop in which the build raised leaves the tables as
\* they were (the stored snapshot and the change records), adds nothing to
\* all_changes, and process_course returned ([], False).
C12_BuildFailureKeepsSnapshot ==
    [][(Len(results') = Len(results) + 1 /\ results'[Len(results')].raised)
          => /\ db' = db
             /\ all_changes' = all_changes
             /\ results'[Len(results')].changes = <<>>
             /\ ~results'[Len(results')].success]_vars

\* A build that raised for a course with a stored snapshot, which is still
\* the stored one.
C12_Witness ==
    \E i \in 1..Len(results) :
        /\ results[i].raised
        /\ results[i].old_root # NoNode
        /\ Stored(db, results[i].course.id) = results[i].old_root

\* C13: at the end of run_checker every course of the list was processed
\* once, in the order of the list, and the notification sent holds the
\* changes of every course that succeeded with changes.
C13_AllNotified ==
    rpc = "done" =>
        /\ Len(results) = Len(courses)
        /\ \A i \in 1..Len(results) : results[i].course = courses[i]
        /\ sent # NoNode =>
              \A i \in 1..Len(results) :
                  (results[i].success /\ results[i].changes # <<>>)
                     => \E k \in 1..Len(sent.plain) :
                           sent.plain[k] = <<results[i].course.name, results[i].changes>>

\* The part of C13 on the loop: every course processed once, in order,
\* whatever the earlier ones did.
C13_EveryCourseProcessed ==
    rpc = "done" =>
        /\ Len(results) = Len(courses)
        /\ \A i \in 1..Len(results) : results[i].course = courses[i]


\* The last, and the first, child of node with the display name name;
\* NoNode when there is none, or no node.
LastChild(node, name) ==
    IF node = NoNode \/ \A i \in 1..Len(node.children) : node.children[i].name # name
    THEN NoNode
    ELSE node.children[CHOOSE i \in 1..Len(node.children) :
            /\ node.children[i].name = name
            /\ \A j \in (i + 1)..Len(node.children) : node.children[j].name # name]

FirstChild(node, name) ==
    IF node = NoNode \/ \A i \in 1..Len(node.children) : node.children[i].name # name
    THEN NoNode
    ELSE node.children[CHOOSE i \in 1..Len(node.children) :
            /\ node.children[i].name = name
            /\ \A j \in 1..(i - 1) : node.children[j].name # name]

\* The build of the j-th directory link of the course page of the i-th
\* course, against the prior node prior.
SubBuild(i, j, prior) ==
    LET links == get_links(sites[i], "/course")
    IN  build_tree(sites[i], links.dir_urls[j],
                   PathJoin(results[i].course.download_folder, links.dir_names[j]),
                   links.dir_names[j], prior)

\* The i-th course was built, and its children are those of the builds
\* SubBuild(i, j, prior(j)), whose calls end the calls of the build.
BuiltAgainst(i, priors) ==
    LET r == results[i]
        subs == [j \in 1..Len(r.new_root.children) |-> SubBuild(i, j, priors[j])]
        tail == Flatten([j \in 1..Len(subs) |-> subs[j].calls])
    IN  /\ \A j \in 1..Len(subs) : r.new_root.children[j] = subs[j].node
        /\ Len(tail) <= Len(r.calls)
        /\ SubSeq(r.calls, Len(r.calls) - Len(tail) + 1, Len(r.calls)) = tail

\* The changes of the i-th course are: the deleted directories; for each
\* name of the new children, in the order of first occurrence, the records
\* of the last new child of that name, all added when olds[name] is NoNode
\* and diffed against olds[name] otherwise; then the records of the files.
DiffedAgainst(i, olds) ==
    LET r == results[i]
        names == DictKeys(DirKeys(r.new_root.children))
    IN  r.changes =
            DeletedDirs(r.old_root, r.new_root)
            \o Flatten([k \in 1..Len(names) |->
                  IF olds[k] = NoNode
                  THEN _report_all_added(LastChild(r.new_root, names[k]),
                                         r.new_root.local_path)
                  ELSE diff_trees(olds[k], LastChild(r.new_root, names[k]))])
            \o DeletedFiles(r.old_root, r.new_root)
            \o ChangedFiles(r.old_root, r.new_root)

\* The courses processed whose build returned a tree.
BuiltCourses == {i \in 1..Len(results) : ~results[i].raised}

\* The courses processed that were diffed against a stored snapshot.
DiffedCourses ==
    {i \in BuiltCourses : results[i].old_root # NoNode /\ faults[i] # "diff"}

\* C19 as stated: children matched by name are matched with the FIRST prior
\* child of that name, by build_tree and by diff_trees.
C19_FirstMatch ==
    /\ \A i \in BuiltCourses :
          BuiltAgainst(i, [j \in 1..Len(results[i].new_root.children) |->
                FirstChild(results[i].old_root, results[i].new_root.children[j].name)])
    /\ \A i \in DiffedCourses :
          DiffedAgainst(i, [k \in 1..Len(DictKeys(DirKeys(results[i].new_root.children))) |->
                FirstChild(results[i].old_root,
                           DictKeys(DirKeys(results[i].new_root.children))[k])])

\* C19, amended: children matched by name are matched with the LAST prior
\* child of that name.  build_tree passes the last prior child of a new
\* child's name as the prior node of its recursion, and diff_trees diffs a
\* new child (the last one of its name) against the last prior child of
\* that name.
C19_LastMatch ==
    /\ \A i \in BuiltCourses :
          BuiltAgainst(i, [j \in 1..Len(results[i].new_root.children) |->
                LastChild(results[i].old_root, results[i].new_root.children[j].name)])
    /\ \A i \in DiffedCourses :
          DiffedAgainst(i, [k \in 1..Len(DictKeys(DirKeys(results[i].new_root.children))) |->
                LastChild(results[i].old_root,
                          DictKeys(DirKeys(results[i].new_root.children))[k])])

\* A course whose stored snapshot and whose page both list two directories
\* of one name, the prior two differing, diffed with changes found.
C19_Witness ==
    \E i \in DiffedCourses :
        /\ FirstChild(results[i].old_root, "Labs") # LastChild(results[i].old_root, "Labs")
        /\ FirstChild(results[i].new_root, "Labs") # LastChild(results[i].new_root, "Labs")
        /\ results[i].changes # <<>>


(***************************************************************************)
(* Claims about the shape of a built tree.                                 *)
(***************************************************************************)
\* C20: every directory built holds one File per file link of its listing
\* and one child per directory link, the i-th carrying the i-th link and
\* the i-th name: nothing is dropped, duplicated or reordered.
C20_PositionalLinks ==
    Built =>
        \A n \in ListingsOf(new_root) :
            LET links == get_links(scraper, n.url)
            IN  /\ Len(n.files) = Len(links.file_urls)
                /\ \A i \in 1..Len(n.files) :
                      /\ n.files[i].url = links.file_urls[i]
                      /\ n.files[i].name = links.file_names[i]
                /\ Len(n.children) = Len(links.dir_urls)
                /\ \A i \in 1..Len(n.children) :
                      /\ n.children[i].url = links.dir_urls[i]
                      /\ n.children[i].name = links.dir_names[i]

\* A built course page listing one file link twice, another file and a
\* directory.
C20_Witness ==
    /\ Built
    /\ \E n \in ListingsOf(new_root) :
          /\ Len(n.files) >= 2
          /\ n.files[1].url = n.files[2].url
    /\ \E n \in ListingsOf(new_root) : n.children # <<>>


(***************************************************************************)
(* Claims about the check routes.                                          *)
(***************************************************************************)
\* The tasks whose check is executing.
Checking == {i \in 1..Len(tasks) : tasks[i].pc = "checking"}

\* C16: at most one check is executing at any time.
C16_OneCheckAtATime == Cardinality(Checking) <= 1

\* C17: a request handled while a request accepted earlier has not ended
\* its check is answered 409, and adds no task.
C17_RejectedWhilePending ==
    \A i \in 1..Len(tasks) :
        tasks[i].pending # {} => tasks[i].answer = 409 /\ tasks[i].pc = "rejected"


(***************************************************************************)
(* The builder and the differ on objects.  The heap is the sequence of the *)
(* objects created so far; an object's identity is its index.  A Node      *)
(* object holds, in children and files, the identities of the objects in   *)
(* its two lists.  Node(...) and File(...) create an object; an assignment *)
(* to a field or an append to a list would change one.                     *)
(***************************************************************************)
RECURSIVE AllocFiles(_, _, _, _)
\* node.files.append(File(...)) for the files of a stored tree, from the
\* i-th on.
AllocFiles(h, node, files, i) ==
    IF i > Len(files) THEN h
    ELSE AllocFiles([Append(h, files[i]) EXCEPT ![node].files = Append(@, Len(h) + 1)],
                    node, files, i + 1)

RECURSIVE AllocTree(_, _)
RECURSIVE AllocChildren(_, _, _, _)
\* The objects of a tree loaded by load_tree: the heap and the identity of
\* the root.
AllocTree(h, tree) ==
    LET node == Len(h) + 1
        h1 == Append(h, Node(tree.name, tree.url, tree.local_path, <<>>, <<>>))
        h2 == AllocFiles(h1, node, tree.files, 1)
    IN  [heap |-> AllocChildren(h2, node, tree.children, 1), node |-> node]

AllocChildren(h, node, children, i) ==
    IF i > Len(children) THEN h
    ELSE LET child == AllocTree(h, children[i])
         IN  AllocChildren([child.heap EXCEPT ![node].children = Append(@, child.node)],
                           node, children, i + 1)

\* The objects of the lists of a Node object.
FilesOf(h, node) == [k \in 1..Len(h[node].files) |-> h[h[node].files[k]]]
ChildrenOf(h, node) == [k \in 1..Len(h[node].children) |-> h[h[node].children[k]]]

RECURSIVE HeapFilesSharing(_, _, _, _, _, _)
\* Mutant of HeapFiles: a file that is not fetched again keeps its prior
\* File object.
HeapFilesSharing(h, site, links, i, node, old) ==
    IF i > Len(links.file_urls) THEN h
    ELSE LET old_files == IF old = 0 THEN <<>> ELSE FilesOf(h, old)
             old_file == MapGet(IF old = 0 THEN NoNode ELSE h[old], old_files,
                                FileKeys(old_files), links.file_urls[i], NoFile)
             got == ProcessFile(site, links.file_urls[i], links.file_names[i],
                                old_file, h[node].local_path)
             kept == \A k \in 1..Len(got.calls) : got.calls[k][1] # "download_file"
         IN  HeapFilesSharing(
                IF kept
                THEN [h EXCEPT ![node].files =
                        Append(@, DictGet(h[old].files, FileKeys(old_files),
                                          links.file_urls[i]))]
                ELSE [Append(h, got.file) EXCEPT ![node].files = Append(@, Len(h) + 1)],
                site, links, i + 1, node, old)

RECURSIVE HeapFiles(_, _, _, _, _, _)
\* The loop "Process files" of build_tree from its i-th turn on: each turn
\* reads old_files_map and appends a new File object to node.files.
HeapFiles(h, site, links, i, node, old) ==
    IF i > Len(links.file_urls) THEN h
    ELSE LET old_files == IF old = 0 THEN <<>> ELSE FilesOf(h, old)
             old_file == MapGet(IF old = 0 THEN NoNode ELSE h[old], old_files,
                                FileKeys(old_files), links.file_urls[i], NoFile)
             got == ProcessFile(site, links.file_urls[i], links.file_names[i],
                                old_file, h[node].local_path)
         IN  HeapFiles([Append(h, got.file) EXCEPT ![node].files = Append(@, Len(h) + 1)],
                       site, links, i + 1, node, old)

RECURSIVE build_tree_objects(_, _, _, _, _, _)
RECURSIVE HeapDirs(_, _, _, _, _, _)
\* build_tree on objects, when no call raises: node = Node(name, url,
\* local_path), the two loops, return node.  old is the identity of
\* old_node, 0 for None.
build_tree_objects(h, site, url, local_path, name, old) ==
    LET node == Len(h) + 1
        h1 == Append(h, Node(name, url, local_path, <<>>, <<>>))
        links == get_links(site, url)
        h2 == HeapFiles(h1, site, links, 1, node, old)
    IN  [heap |-> HeapDirs(h2, site, links, 1, node, old), node |-> node]

\* The loop "Process subdirectories" from its i-th turn on: each turn reads
\* old_children_map and appends the Node object the recursive call returned.
HeapDirs(h, site, links, i, node, old) ==
    IF i > Len(links.dir_urls) THEN h
    ELSE LET old_children == IF old = 0 THEN <<>> ELSE ChildrenOf(h, old)
             old_child == IF old # 0 /\ DictHas(DirKeys(old_children), links.dir_names[i])
                          THEN DictGet(h[old].children, DirKeys(old_children),
                                       links.dir_names[i])
                          ELSE 0
             child == build_tree_objects(h, site, links.dir_urls[i],
                          PathJoin(h[node].local_path, links.dir_names[i]),
                          links.dir_names[i], old_child)
         IN  HeapDirs([child.heap EXCEPT ![node].children = Append(@, child.node)],
                      site, links, i + 1, node, old)

RECURSIVE Deref(_, _)
\* The tree of values below a Node object.
Deref(h, node) ==
    IF node = 0 THEN NoNode
    ELSE Node(h[node].name, h[node].url, h[node].local_path,
              [k \in 1..Len(h[node].children) |-> Deref(h, h[node].children[k])],
              FilesOf(h, node))

RECURSIVE Reach(_, _)
\* The identities of the objects of the tree below a Node object.
Reach(h, node) ==
    IF node = 0 THEN {}
    ELSE {node} \cup Range(h[node].files)
         \cup UNION {Reach(h, h[node].children[k]) : k \in 1..Len(h[node].children)}

\* A stored snapshot loaded, or none, and the site.
InitHeap ==
    /\ \E pr \in BuildInputs :
          /\ heap = IF pr[1] = NoNode THEN <<>> ELSE AllocTree(<<>>, pr[1]).heap
          /\ refs = [old |-> IF pr[1] = NoNode THEN 0 ELSE 1, new |-> 0]
          /\ hsite = Site(pr[2], {})
    /\ heap0 = heap
    /\ hpc = "loaded"
    /\ DiffIdle /\ BuildIdle /\ StoreIdle /\ CycleIdle /\ WebIdle
    /\ StatusIdle /\ HttpIdle /\ RecordIdle

\* new_root = tree_builder.build_tree(scraper_instance, url, download_folder,
\*                                    course_name, old_root)
BuildObjects ==
    /\ hpc = "loaded"
    /\ LET built == build_tree_objects(heap, hsite, "/course", <<"dl">>, "root", refs.old)
       IN  /\ heap' = built.heap
           /\ refs' = [refs EXCEPT !.new = built.node]
    /\ heap0' = heap
    /\ hpc' = "built"
    /\ UNCHANGED hsite
    /\ UNCHANGED <<diffVars, buildVars, storeVars, cycleVars, webVars, statusVars,
                 httpVars, recordVars>>

\* changes = differ.diff_trees(old_root, new_root): the differ reads the
\* fields and the lists of the two trees and creates its dicts and its
\* result only.
DiffObjects ==
    /\ hpc = "built"
    /\ changes' = diff_trees(Deref(heap, refs.old), Deref(heap, refs.new))
    /\ heap0' = heap
    /\ hpc' = "diffed"
    /\ UNCHANGED <<heap, refs, hsite>>
    /\ UNCHANGED <<previous, latest, dpc>>
    /\ UNCHANGED <<buildVars, storeVars, cycleVars, webVars, statusVars,
                 httpVars, recordVars>>

NextHeap == BuildObjects \/ DiffObjects

SpecHeap == InitHeap /\ [][NextHeap]_vars

(***************************************************************************)
(* Claims about objects.                                                   *)
(***************************************************************************)
\* C15: build_tree leaves every object that existed before the call as it
\* was (fields, children and files, in order), the tree it returns is made
\* of objects created by the call only, and is the tree of values that
\* build_tree computes; diff_trees leaves every object as it was.
C15_InputsUntouched ==
    /\ hpc = "built" =>
          /\ \A o \in 1..Len(heap0) : heap[o] = heap0[o]
          /\ Reach(heap, refs.new) \cap (1..Len(heap0)) = {}
          /\ Deref(heap, refs.new) =
                build_tree(hsite, "/course", <<"dl">>, "root", Deref(heap0, refs.old)).node
    /\ hpc = "diffed" => heap = heap0

\* A build against a stored snapshot in which a file was kept without a
\* download and a directory was matched.
C15_Witness ==
    /\ hpc = "built"
    /\ refs.old # 0
    /\ \E o \in Reach(heap, refs.new), q \in Reach(heap0, refs.old) :
          /\ o # refs.new
          /\ heap[o] = heap0[q]
          /\ "md5_hash" \in DOMAIN heap[o]
    /\ heap[refs.old].children # <<>>
    /\ heap[refs.new].children # <<>>


(***************************************************************************)
(* Helpers of the order of the calls of a build.                           *)
(***************************************************************************)
RECURSIVE NodesPreorder(_)
\* The directories of a snapshot, each before its children and the whole
\* subtree of one child before the next child.
NodesPreorder(node) ==
    <<node>> \o Flatten([i \in 1..Len(node.children) |->
                            NodesPreorder(node.children[i])])

\* The positions of the get_links calls of the build, in order.
ListingCalls == SelectIdx([i \in 1..Len(calls) |-> calls[i][1] = "get_links"])

\* The calls made after the k-th listing was fetched and before the next.
CallsAfterListing(k) ==
    SubSeq(calls, ListingCalls[k] + 1,
           IF k < Len(ListingCalls) THEN ListingCalls[k + 1] - 1 ELSE Len(calls))

\* The runs of calls that reconcile one file of a directory: the probe (not
\* for a Google Drive link), then the download and the hash, or neither.
Reconciled(f, local_path) ==
    LET probe == <<"fetch_etag", f.url>>
        fetched == << <<"download_file", f.url, local_path>>,
                      <<"compute_md5", f.url, local_path>> >>
    IN  IF f.url \in GoogleUrls THEN {fetched}
        ELSE {<<probe>>, <<probe>> \o fetched}

RECURSIVE ReconciledInOrder(_, _, _)
\* The trace is the files' reconciliations, one after the other, in order.
ReconciledInOrder(trace, files, local_path) ==
    IF files = <<>> THEN trace = <<>>
    ELSE \E run \in Reconciled(Head(files), local_path) :
            /\ Len(run) <= Len(trace)
            /\ SubSeq(trace, 1, Len(run)) = run
            /\ ReconciledInOrder(SubSeq(trace, Len(run) + 1, Len(trace)),
                                 Tail(files), local_path)

(***************************************************************************)
(* C21: build_tree is sequential and depth-first.  The listings are        *)
(* fetched in the preorder of the snapshot returned, one get_links call    *)
(* for each directory of it, so the whole subtree of one subdirectory is   *)
(* built before the listing of the next is fetched; and the calls between  *)
(* the listing of a directory and the next listing are exactly the         *)
(* reconciliations of that directory's files, in link order: the probe,    *)
(* then the download and the hash when the file is fetched.                *)
(***************************************************************************)
C21_DepthFirst ==
    Built =>
        LET nodes == NodesPreorder(new_root)
        IN  /\ Len(ListingCalls) = Len(nodes)
            /\ calls # <<>> /\ calls[1][1] = "get_links"
            /\ \A k \in 1..Len(nodes) :
                  /\ calls[ListingCalls[k]] = <<"get_links", nodes[k].url>>
                  /\ ReconciledInOrder(CallsAfterListing(k), nodes[k].files,
                                       nodes[k].local_path)

\* A build of two subdirectories has returned: a file of the first was
\* probed and downloaded before the listing of the second was fetched.
C21_Witness ==
    /\ Built
    /\ Len(new_root.children) >= 2
    /\ new_root.children[1].files # <<>>
    /\ new_root.children[1].files[1].url \notin GoogleUrls
    /\ Len(CallsAfterListing(2)) = 3

(***************************************************************************)
(* C28: in every snapshot build_tree returns, the root's local_path is the *)
(* path the caller passed, and the local_path of every other directory is  *)
(* its parent's local_path, a separator and the directory's name; so every *)
(* path of a change diff_trees reports against a prior snapshot is the     *)
(* local_path of a directory of the new snapshot (the root path followed   *)
(* by a chain of directory names), a separator and one more name.          *)
(***************************************************************************)
C28_StoragePaths ==
    Built =>
        LET nodes == NodesPreorder(new_root)
            paths == {nodes[k].local_path : k \in 1..Len(nodes)}
            diff == IF old_root = NoNode THEN <<>> ELSE diff_trees(old_root, new_root)
        IN  /\ new_root.local_path = <<"dl">>
            /\ \A k \in 1..Len(nodes) : \A i \in 1..Len(nodes[k].children) :
                  nodes[k].children[i].local_path
                      = Under(nodes[k].local_path, nodes[k].children[i].name)
            /\ \A m \in 1..Len(diff) :
                  LET path == PathOf(diff[m])
                  IN  /\ Len(path) >= 3
                      /\ path[Len(path) - 1] = "/"
                      /\ SubSeq(path, 1, Len(path) - 2) \in paths

\* A snapshot three levels deep was built against a prior snapshot, and a
\* change two directories below the root is reported.
C28_Witness ==
    /\ Built /\ old_root # NoNode
    /\ \E i \in 1..Len(new_root.children) : new_root.children[i].children # <<>>
    /\ \E m \in 1..Len(diff_trees(old_root, new_root)) :
          Len(PathOf(diff_trees(old_root, new_root)[m])) >= 7

(***************************************************************************)
(* Helpers of the comparison of the two branches of diff_trees.            *)
(***************************************************************************)
\* The prior snapshot is a root without files and without directories, and
\* the new root is mirrored in a folder named like the course.
AgainstEmptyRoot ==
    /\ DiffDone
    /\ previous # NoNode
    /\ previous.children = <<>> /\ previous.files = <<>>
    /\ latest.local_path = <<latest.name>>

\* No two directories of the new root share a name and no two of its files
\* a location.
DistinctAtRoot ==
    /\ \A i, j \in 1..Len(latest.children) :
          latest.children[i].name = latest.children[j].name => i = j
    /\ \A i, j \in 1..Len(latest.files) :
          latest.files[i].url = latest.files[j].url => i = j

(***************************************************************************)
(* C30 as the specification states it: the diff against a prior root       *)
(* without entries is the diff against no prior snapshot, record by        *)
(* record.  The diffs of the model refute it.                              *)
(***************************************************************************)
C30_Original ==
    AgainstEmptyRoot => changes = diff_trees(NoNode, latest)

(***************************************************************************)
(* C30, amended: for a new root mirrored in a folder named like the course *)
(* whose directories have distinct names and whose files have distinct     *)
(* locations, the diff against a prior root without entries holds the      *)
(* records of the diff against no prior snapshot, those of the root's      *)
(* directories first and in the same order, those of the root's files      *)
(* after them and in the same order.                                       *)
(***************************************************************************)
C30_SameRecordsDirsFirst ==
    (AgainstEmptyRoot /\ DistinctAtRoot) =>
        LET first == diff_trees(NoNode, latest)
            k == Len(latest.files)
        IN  changes = SubSeq(first, k + 1, Len(first)) \o SubSeq(first, 1, k)

\* The new root holds a file and a directory with a file of its own.
C30_Witness ==
    /\ AgainstEmptyRoot /\ DistinctAtRoot
    /\ latest.files # <<>>
    /\ \E i \in 1..Len(latest.children) : latest.children[i].files # <<>>
    /\ changes # diff_trees(NoNode, latest)

(***************************************************************************)
(* C24: after any sequence of save_tree calls (committed or rolled back,   *)
(* for any courses, with resets between them), a load_tree of course c     *)
(* during which no snapshot of c is committed returns the tree saved last  *)
(* for c, equal in names, locations, paths, hashes and tokens and in the   *)
(* order of children and files, or None when there is none; the rows it    *)
(* read are rows of c, as many as the saved tree has directories.          *)
(***************************************************************************)
C24_LoadReturnsLastSaved ==
    (/\ reader # NoNode /\ reader.pc = "returned"
     /\ reader.since = Len(versions[reader.course_id]))
        => /\ reader.tree = LastVersion(reader.course_id)
           /\ \A i \in 1..Len(reader.nodes_data) :
                 reader.nodes_data[i].course_id = reader.course_id
           /\ Len(reader.nodes_data) =
                 IF LastVersion(reader.course_id) = NoNode THEN 0
                 ELSE CountNodes(LastVersion(reader.course_id))

\* A course saved twice, first with files at the root and then with two
\* directories, was loaded once both saves were committed.
C24_Witness ==
    /\ reader # NoNode /\ reader.pc = "returned"
    /\ reader.since = Len(versions[reader.course_id])
    /\ Len(versions[reader.course_id]) = 3
    /\ versions[reader.course_id][2] # NoNode
    /\ Len(versions[reader.course_id][2].files) = 2
    /\ reader.tree # NoNode
    /\ Len(reader.tree.children) = 2

(***************************************************************************)
(* C29: every message diff_trees returns starts with one of "Added file:", *)
(* "Deleted file:", "Modified file:", "Added directory:" and               *)
(* "Deleted directory:" (never "Modified directory:"), so the change       *)
(* record create_change_record builds from them has no item of type        *)
(* 'unknown', and the added, deleted and modified counts of its summary    *)
(* add up to changes_count, the number of messages.                        *)
(***************************************************************************)
C29_KnownPrefixes ==
    /\ dpc \in {"done", "logged"} =>
          \A i \in 1..Len(changes) :
              Prefix(changes[i]) \in {"Added file:", "Deleted file:", "Modified file:",
                                      "Added directory:", "Deleted directory:"}
    /\ dpc = "logged" =>
          LET row == wtx.tables.change_records[Len(wtx.tables.change_records)]
          IN  /\ row.changes_count = Len(changes)
              /\ row.message.added + row.message.deleted + row.message.modified
                    = row.changes_count
              /\ Len(row.items) = Len(changes)
              /\ \A i \in 1..Len(row.items) :
                    /\ row.items[i].change_type # "unknown"
                    /\ row.items[i].file_path = PathOf(changes[i])

\* A change record of a deleted directory, an added directory and a
\* modified file.
C29_Witness ==
    /\ dpc = "logged"
    /\ LET row == wtx.tables.change_records[Len(wtx.tables.change_records)]
       IN  /\ {row.items[i].change_type : i \in 1..Len(row.items)}
                 = {"deleted_directory", "added_directory", "modified_file"}
           /\ row.message = [added |-> 1, deleted |-> 1, modified |-> 1]

(***************************************************************************)
(* Helpers of the claims on the change history.                            *)
(***************************************************************************)
\* The change records of a course, in the order of their insertion.
RecordsOf(tables, course_id) ==
    SelectSeq(tables.change_records, LAMBDA r : r.course_id = course_id)

\* The items a change record of the messages holds.
ItemsOf(change_list) == [i \in 1..Len(change_list) |-> ChangeItem(change_list[i])]

(***************************************************************************)
(* C25: a turn of the loop that replaces the stored snapshot of a course   *)
(* by a snapshot whose diff against the stored one is not empty adds one   *)
(* change record of the course, which lists exactly the changes of that    *)
(* diff.  The check cycles of the model refute it.                         *)
(***************************************************************************)
C25_ChangesRecorded ==
    [][(Len(results') = Len(results) + 1)
          => LET turn == results'[Len(results')]
                 prior == Stored(db, turn.course.id)
                 diff == diff_trees(prior, turn.new_root)
             IN  (turn.success /\ Stored(db', turn.course.id) # prior /\ diff # <<>>)
                    => /\ Len(RecordsOf(db', turn.course.id))
                             = Len(RecordsOf(db, turn.course.id)) + 1
                       /\ RecordsOf(db', turn.course.id)
                                [Len(RecordsOf(db', turn.course.id))].items
                             = ItemsOf(diff)]_vars

(***************************************************************************)
(* C26: a turn of the loop in which save_tree failed leaves the tables as  *)
(* they were, the change record log_changes had written included; a turn   *)
(* adds a change record only if it also stored the new snapshot; and after *)
(* a failed save a next check of the course, against the same site,        *)
(* detects the same changes.                                               *)
(***************************************************************************)
C26_RecordRolledBackWithSave ==
    [][(Len(results') = Len(results) + 1)
          => LET turn == results'[Len(results')]
                 site == sites[Len(results')]
             IN  /\ (turn.new_root # NoNode /\ ~turn.success)
                       => /\ db' = db
                          /\ process_course(db', turn.course, site, "none").changes
                                = turn.changes
                 /\ db'.change_records # db.change_records
                       => /\ turn.success
                          /\ Stored(db', turn.course.id) = turn.new_root]_vars

\* A save that failed after changes were logged, for a course with a stored
\* snapshot: the snapshot is still the stored one and the course has the
\* one change record of its earlier check.
C26_Witness ==
    \E i \in 1..Len(results) :
        /\ faults[i] = "save"
        /\ ~results[i].success
        /\ results[i].changes # <<>>
        /\ results[i].old_root # NoNode
        /\ Stored(db, results[i].course.id) = results[i].old_root
        /\ Len(RecordsOf(db, results[i].course.id)) = 1

(***************************************************************************)
(* scraper.py: Scraper.download_file over HTTP.  The site answers a GET of *)
(* a file with a status that depends on the session's cookie (stale or     *)
(* fresh), the login page answers the POST of _update_cookie, and Google   *)
(* Drive answers the GET of download_google_drive_file.                    *)
(***************************************************************************)
\* The status codes of the model's answers.
Statuses == {200, 403, 404}

\* The sites.
Servers ==
    [file : [{"stale", "fresh"} -> Statuses], login : {200, 403}, drive : {200, 404}]

\* requests' Response.raise_for_status(): HTTPError, a RequestException,
\* for every 4xx and 5xx status.
raise_for_status(status_code) == status_code >= 400 /\ status_code < 600

\* self._update_cookie(): the POST of the login form; the cookie is fresh
\* when it succeeded, RuntimeError when it did not.
_update_cookie(srv, sess) ==
    [session |-> IF raise_for_status(srv.login) THEN sess ELSE [cookie |-> "fresh"],
     requests |-> << <<"POST", "login">> >>,
     statuses |-> <<srv.login>>,
     raised |-> raise_for_status(srv.login)]

\* download_file(file_url, destination): the session it leaves, the
\* requests it made with the statuses of their answers, and whether it
\* raised RuntimeError instead of returning the path of the file written.
download_file(srv, sess, file_url) ==
    IF IsGoogle(file_url)
    THEN [session |-> sess, requests |-> << <<"GET", "drive">> >>,
          statuses |-> <<srv.drive>>, raised |-> raise_for_status(srv.drive)]
    ELSE
    LET first == srv.file[sess.cookie]
        get == << <<"GET", file_url>> >>
    IN  IF raise_for_status(first)
        THEN [session |-> sess, requests |-> get, statuses |-> <<first>>,
              raised |-> TRUE]
        ELSE IF first = 403
        THEN LET login == _update_cookie(srv, sess)
                 second == srv.file[login.session.cookie]
             IN  IF login.raised
                 THEN [session |-> login.session, requests |-> get \o login.requests,
                       statuses |-> <<first>> \o login.statuses, raised |-> TRUE]
                 ELSE [session |-> login.session,
                       requests |-> get \o login.requests \o get,
                       statuses |-> <<first>> \o login.statuses \o <<second>>,
                       raised |-> raise_for_status(second)]
        ELSE [session |-> sess, requests |-> get, statuses |-> <<first>>,
              raised |-> FALSE]

InitDownload ==
    /\ server \in Servers
    /\ session \in [cookie : {"stale", "fresh"}]
    /\ \E file_url \in {"u1", "google1"} :
          download = [pc |-> "call", file_url |-> file_url,
                      requests |-> <<>>, statuses |-> <<>>]
    /\ DiffIdle /\ BuildIdle /\ StoreIdle /\ CycleIdle /\ WebIdle /\ HeapIdle
    /\ StatusIdle /\ RecordIdle

\* downloaded_path = scraper.download_file(file_url, local_path)
DownloadFile ==
    /\ download.pc = "call"
    /\ LET got == download_file(server, session, download.file_url)
       IN  /\ session' = got.session
           /\ download' = [download EXCEPT
                             !.pc = IF got.raised THEN "raised" ELSE "returned",
                             !.requests = got.requests,
                             !.statuses = got.statuses]
    /\ UNCHANGED server
    /\ UNCHANGED <<diffVars, buildVars, storeVars, cycleVars, webVars, heapVars,
                   statusVars, recordVars>>

NextDownload == DownloadFile

SpecDownload == InitDownload /\ [][NextDownload]_vars

(***************************************************************************)
(* C22: when the GET of a file of the site is answered with 403,           *)
(* download_file logs in again and repeats the GET once; it raises only    *)
(* when the login or the repeated GET fails.  The downloads of the model   *)
(* refute it.                                                              *)
(***************************************************************************)
C22_RetryAfter403 ==
    (/\ download.pc \in {"returned", "raised"}
     /\ ~IsGoogle(download.file_url)
     /\ download.statuses[1] = 403)
        => /\ Len(download.requests) >= 2
           /\ download.requests[2] = <<"POST", "login">>
           /\ download.pc = "raised"
                 <=> \/ raise_for_status(server.login)
                     \/ raise_for_status(server.file["fresh"])

(***************************************************************************)
(* persistence.py: the change_no of create_change_record.  A datetime is   *)
(* the number of microseconds past a full second; datetime.now answers     *)
(* any of them (two calls may fall in one microsecond, and the clock may   *)
(* be set back), and no behaviour of the model reaches the next second.    *)
(***************************************************************************)
\* The latest microsecond datetime.now returns.
MaxClock == 2

\* The most rows of change_records.
MaxRecords == 4

\* dt.replace(tzinfo=None).isoformat(): the microseconds are left out when
\* they are zero.
IsoFormat(dt) == IF dt = 0 THEN <<"10:00:00">> ELSE <<"10:00:00", ".", dt>>

\* Mutant of Violates: the table without its UNIQUE constraint.
ViolatesNever(rows, course_id, change_no) == FALSE

\* UNIQUE(course_id, change_no): the INSERT raises sqlite3.IntegrityError.
Violates(rows, course_id, change_no) ==
    \E i \in 1..Len(rows) :
        rows[i].course_id = course_id /\ rows[i].change_no = change_no

\* next_dt = base_dt + timedelta(microseconds=microsecond_offset)
\* change_no = next_dt.replace(tzinfo=None).isoformat()
NextChangeNo(base_dt, microsecond_offset) == IsoFormat(base_dt + microsecond_offset)

InitChangeNo ==
    /\ taken = <<>>
    /\ insert = [pc |-> "idle"]
    /\ DiffIdle /\ BuildIdle /\ StoreIdle /\ CycleIdle /\ WebIdle /\ HeapIdle
    /\ StatusIdle /\ HttpIdle

\* create_change_record up to its loop: base_dt = datetime.now(...), the
\* first change_no and microsecond_offset = 1.
ComputeChangeNo(course_id, now) ==
    /\ insert.pc \in {"idle", "done"}
    /\ Len(taken) < MaxRecords
    /\ insert' = [pc |-> "try", course_id |-> course_id, base_dt |-> now,
                  change_no |-> IsoFormat(now), microsecond_offset |-> 1]
    /\ UNCHANGED taken
    /\ UNCHANGED <<diffVars, buildVars, storeVars, cycleVars, webVars, heapVars,
                   statusVars, httpVars>>

\* The INSERT succeeds: change_record_id = cursor.lastrowid, break.
InsertRecord ==
    /\ insert.pc = "try"
    /\ ~Violates(taken, insert.course_id, insert.change_no)
    /\ taken' = Append(taken, [course_id |-> insert.course_id,
                               change_no |-> insert.change_no])
    /\ insert' = [insert EXCEPT !.pc = "done"]
    /\ UNCHANGED <<diffVars, buildVars, storeVars, cycleVars, webVars, heapVars,
                   statusVars, httpVars>>

\* The INSERT raises IntegrityError: the next change_no, and the loop again.
Collision ==
    /\ insert.pc = "try"
    /\ Violates(taken, insert.course_id, insert.change_no)
    /\ insert' = [insert EXCEPT
                    !.change_no = NextChangeNo(insert.base_dt, insert.microsecond_offset),
                    !.microsecond_offset = @ + 1]
    /\ UNCHANGED taken
    /\ UNCHANGED <<diffVars, buildVars, storeVars, cycleVars, webVars, heapVars,
                   statusVars, httpVars>>

NextChangeNoLoop ==
    \/ \E c \in CourseIds, now \in 0..MaxClock : ComputeChangeNo(c, now)
    \/ InsertRecord
    \/ Collision

\* The loop "while True" goes on until its break.
SpecChangeNo ==
    InitChangeNo /\ [][NextChangeNoLoop]_vars /\ WF_vars(InsertRecord \/ Collision)

(***************************************************************************)
(* C23: no two rows of change_records have the same (course_id,            *)
(* change_no); a call whose change_no is taken for its course goes through *)
(* base_dt + 1, base_dt + 2, ... microseconds and inserts the first that   *)
(* is free; and every call that entered the loop leaves it.                *)
(***************************************************************************)
C23_UniqueChangeNo ==
    /\ [](/\ \A i, j \in 1..Len(taken) : taken[i] = taken[j] => i = j
          /\ insert.pc = "done" =>
                /\ taken[Len(taken)] = [course_id |-> insert.course_id,
                                        change_no |-> insert.change_no]
                /\ insert.change_no =
                      IF insert.microsecond_offset = 1 THEN IsoFormat(insert.base_dt)
                      ELSE IsoFormat(insert.base_dt + insert.microsecond_offset - 1)
                /\ \A d \in 0..(insert.microsecond_offset - 2) :
                      \E i \in 1..(Len(taken) - 1) :
                          taken[i] = [course_id |-> insert.course_id,
                                      change_no |-> IsoFormat(insert.base_dt + d)])
    /\ (insert.pc = "try") ~> (insert.pc = "done")

\* A call that collided twice and inserted at base_dt + 2 microseconds,
\* while the other course holds a row of the same change_no.
C23_Witness ==
    /\ insert.pc = "done"
    /\ insert.microsecond_offset = 3
    /\ \E i \in 1..Len(taken) :
          /\ taken[i].course_id # insert.course_id
          /\ taken[i].change_no = insert.change_no

(***************************************************************************)
(* checker.py: run_checker and check_single_course, statement by           *)
(* statement, on the connection of their DatabaseManager.  check_status    *)
(* holds the committed row of the table check_status and the row written   *)
(* but not yet committed; spc is the statement the routine is at.  One     *)
(* routine runs at a time, as check_lock of web/app.py intends.            *)
(***************************************************************************)
\* course_id = None, current_course_id NULL.
NoCourse == 0

StatusRow(is_checking, course_id) ==
    [is_checking |-> is_checking, current_course_id |-> course_id]

\* How a call on the connection ends: it returns, cursor.execute raises, or
\* conn.commit raises.
Outcomes == {"ok", "execute", "commit"}

\* Mutant of set_check_status: the statement without its conn.commit().
set_check_status_uncommitted(cs, is_checking, course_id, outcome) ==
    IF outcome = "execute" THEN cs
    ELSE [cs EXCEPT !.pending = IF is_checking THEN StatusRow(TRUE, course_id)
                                 ELSE StatusRow(FALSE, NoCourse)]

\* DatabaseManager.set_check_status: INSERT OR REPLACE of row 1, then
\* conn.commit(); a failure is raised again.
set_check_status(cs, is_checking, course_id, outcome) ==
    LET row == IF is_checking THEN StatusRow(TRUE, course_id)
               ELSE StatusRow(FALSE, NoCourse)
    IN  CASE outcome = "execute" -> cs
          [] outcome = "commit"  -> [cs EXCEPT !.pending = row]
          [] OTHER               -> [committed |-> row, pending |-> NoNode]

\* DatabaseManager.log_check_event: an INSERT into check_logs, then
\* conn.commit(), which also commits a status row left uncommitted.
commit_check_event(cs, outcome) ==
    IF outcome = "ok" /\ cs.pending # NoNode
    THEN [committed |-> cs.pending, pending |-> NoNode]
    ELSE cs

\* What db_manager.get_courses() may return.
CourseRows == {<<>>, <<1>>, <<2>>, <<1, 2>>, <<2, 1>>}

SetStatements ==
    {"set_active", "set_course", "set_idle_empty", "set_idle_unknown",
     "set_idle_failed", "set_idle", "set_idle_error"}

LogStatements ==
    {"log_check_start", "log_no_courses", "log_course_start",
     "log_course_complete", "log_course_error", "log_email_sent",
     "log_email_failed", "log_check_end", "log_error"}

\* Where an exception raised by the statement at label goes: out of the
\* routine from its except block, to the except of the try around
\* send_email, or to the except block of the routine.
Handler(label) ==
    CASE label \in {"log_error", "set_idle_error"}  -> "raised"
      [] label \in {"send_email", "log_email_sent"} -> "log_email_failed"
      [] OTHER                                      -> "log_error"

\* The course the routine is processing.
CurrentCourse ==
    IF routine.name = "run_checker" THEN routine.courses[routine.i]
    ELSE routine.course_id

InitStatus ==
    /\ check_status = [committed |-> StatusRow(FALSE, NoCourse), pending |-> NoNode]
    /\ routine = NoNode
    /\ spc = "off"
    /\ DiffIdle /\ BuildIdle /\ StoreIdle /\ CycleIdle /\ WebIdle /\ HeapIdle
    /\ HttpIdle /\ RecordIdle

\* run_checker(db_manager) or check_single_course(db_manager, course_id) is
\* called; an earlier call has returned or has raised.
CallRoutine(name, course_id) ==
    /\ spc \in {"off", "returned", "raised"}
    /\ name = "run_checker" => course_id = NoCourse
    /\ name = "check_single_course" => course_id \in CourseIds
    /\ routine' = [name |-> name, course_id |-> course_id, courses |-> <<>>,
                   i |-> 0, all_changes |-> FALSE, changes |-> FALSE, e |-> FALSE]
    /\ spc' = "set_active"
    /\ UNCHANGED check_status
    /\ UNCHANGED <<diffVars, buildVars, storeVars, cycleVars, webVars, heapVars,
                   httpVars, recordVars>>

\* A db_manager.set_check_status(...) statement.
SetCheckStatus(outcome) ==
    /\ spc \in SetStatements
    /\ check_status' =
          set_check_status(check_status, spc \in {"set_active", "set_course"},
                           IF spc = "set_course" THEN routine.courses[routine.i]
                           ELSE IF spc = "set_active" THEN routine.course_id
                           ELSE NoCourse,
                           outcome)
    /\ spc' = IF outcome # "ok" THEN Handler(spc)
              ELSE CASE spc = "set_active" ->
                            IF routine.name = "run_checker" THEN "log_check_start"
                            ELSE "get_courses"
                     [] spc = "set_course" -> "log_course_start"
                     [] OTHER -> "returned"
    /\ routine' = [routine EXCEPT !.e = @ \/ (outcome # "ok" /\ Handler(spc) = "log_error")]
    /\ UNCHANGED <<diffVars, buildVars, storeVars, cycleVars, webVars, heapVars,
                   httpVars, recordVars>>

\* A db_manager.log_check_event(...) statement.
LogCheckEvent(outcome) ==
    /\ spc \in LogStatements
    /\ check_status' = commit_check_event(check_status, outcome)
    /\ spc' = IF outcome # "ok" THEN Handler(spc)
              ELSE CASE spc = "log_check_start" -> "get_courses"
                     [] spc = "log_no_courses" -> "set_idle_empty"
                     [] spc = "log_course_start" ->
                            IF routine.name = "run_checker" THEN "process_course"
                            ELSE "scraper"
                     [] spc = "log_course_complete" ->
                            IF routine.name = "check_single_course" THEN "set_idle"
                            ELSE IF routine.i < Len(routine.courses) THEN "set_course"
                            ELSE IF routine.all_changes THEN "send_email"
                            ELSE "log_check_end"
                     [] spc \in {"log_email_sent", "log_email_failed"} ->
                            IF routine.name = "run_checker" THEN "log_check_end"
                            ELSE "log_course_complete"
                     [] spc = "log_check_end" -> "set_idle"
                     [] spc = "log_course_error" -> "set_idle_failed"
                     [] OTHER -> "set_idle_error"
    /\ routine' = [routine EXCEPT
                     !.i = IF outcome = "ok" /\ spc = "log_course_complete"
                              /\ routine.name = "run_checker"
                              /\ routine.i < Len(routine.courses)
                           THEN @ + 1 ELSE @,
                     !.e = @ \/ (outcome # "ok" /\ Handler(spc) = "log_error")]
    /\ UNCHANGED <<diffVars, buildVars, storeVars, cycleVars, webVars, heapVars,
                   httpVars, recordVars>>

\* courses = db_manager.get_courses(), and the test that follows it: an
\* empty list in run_checker, the course of course_id in
\* check_single_course.
GetCourseRows(rows, raised) ==
    /\ spc = "get_courses"
    /\ routine' = IF raised THEN [routine EXCEPT !.e = TRUE]
                  ELSE [routine EXCEPT !.courses = rows, !.i = 1]
    /\ spc' = IF raised THEN Handler(spc)
              ELSE IF routine.name = "run_checker"
                   THEN (IF rows = <<>> THEN "log_no_courses" ELSE "scraper")
              ELSE IF \E k \in 1..Len(rows) : rows[k] = routine.course_id
                   THEN "log_course_start"
              ELSE "set_idle_unknown"
    /\ UNCHANGED check_status
    /\ UNCHANGED <<diffVars, buildVars, storeVars, cycleVars, webVars, heapVars,
                   httpVars, recordVars>>

\* scraper_instance = Scraper(db_manager): loading the cookie or logging in
\* may raise.
NewScraper(raised) ==
    /\ spc = "scraper"
    /\ spc' = IF raised THEN Handler(spc)
              ELSE IF routine.name = "run_checker" THEN "set_course"
              ELSE "process_course"
    /\ routine' = [routine EXCEPT !.e = @ \/ raised]
    /\ UNCHANGED check_status
    /\ UNCHANGED <<diffVars, buildVars, storeVars, cycleVars, webVars, heapVars,
                   httpVars, recordVars>>

\* changes, success = process_course(...): it catches what it raises and
\* makes no call of set_check_status; has_changes says that changes is not
\* empty.
ProcessOneCourse(has_changes, success) ==
    /\ spc = "process_course"
    /\ routine' = [routine EXCEPT !.all_changes = @ \/ (success /\ has_changes),
                                  !.changes = has_changes]
    /\ spc' = IF routine.name = "run_checker" THEN "log_course_complete"
              ELSE IF ~success THEN "log_course_error"
              ELSE IF has_changes THEN "send_email"
              ELSE "log_course_complete"
    /\ UNCHANGED check_status
    /\ UNCHANGED <<diffVars, buildVars, storeVars, cycleVars, webVars, heapVars,
                   httpVars, recordVars>>

\* send_email(...) inside its own try.
SendEmail(raised) ==
    /\ spc = "send_email"
    /\ spc' = IF raised THEN Handler(spc) ELSE "log_email_sent"
    /\ UNCHANGED <<check_status, routine>>
    /\ UNCHANGED <<diffVars, buildVars, storeVars, cycleVars, webVars, heapVars,
                   httpVars, recordVars>>

NextStatus ==
    \/ \E name \in {"run_checker", "check_single_course"},
          course_id \in CourseIds \cup {NoCourse} : CallRoutine(name, course_id)
    \/ \E outcome \in Outcomes : SetCheckStatus(outcome)
    \/ \E outcome \in Outcomes : LogCheckEvent(outcome)
    \/ \E rows \in CourseRows, raised \in BOOLEAN : GetCourseRows(rows, raised)
    \/ \E raised \in BOOLEAN : NewScraper(raised)
    \/ \E has_changes, success \in BOOLEAN : ProcessOneCourse(has_changes, success)
    \/ \E raised \in BOOLEAN : SendEmail(raised)

SpecStatus == InitStatus /\ [][NextStatus]_vars

(***************************************************************************)
(* C27: when run_checker or check_single_course has returned, by whichever *)
(* path, the committed row of check_status has is_checking = FALSE (and    *)
(* nothing is left uncommitted); while the routine is at its call of       *)
(* process_course the committed row has is_checking = TRUE and             *)
(* current_course_id the id of the course being processed.                 *)
(***************************************************************************)
C27_StatusFollowsCheck ==
    /\ spc = "returned" =>
          /\ check_status.committed.is_checking = FALSE
          /\ check_status.pending = NoNode
    /\ spc = "process_course" =>
          check_status.committed = StatusRow(TRUE, CurrentCourse)

\* run_checker has returned through its except block, entered while the
\* second of two courses was the current one.
C27_Witness ==
    /\ spc = "returned"
    /\ routine.name = "run_checker"
    /\ routine.e
    /\ routine.i = 2
    /\ Len(routine.courses) = 2
    /\ routine.all_changes

=========================================================================
